---- MODULE Spec2Model ----
(***************************************************************************)
(* Concept-graph construction pipeline of scripts/build_concepts_db.py:    *)
(* the Lexicon Loader (extract_forms_and_lemmas), the Lemma Canonicalizer  *)
(* (_extract_english_lemma) and the Concept Clusterer                      *)
(* (build_concepts_from_translations) and the Graph Persister              *)
(* (create_concepts_db); the augmenter of                                  *)
(* scripts/build_translations_bidirectional.py (main) and the gloss        *)
(* classifiers of scripts/build_translations.py and                        *)
(* scripts/build_translations_bidirectional.py.                            *)
(*                                                                         *)
(* A Python str is modelled as a sequence of one-character strings, so     *)
(* that len(), slicing, split(), strip(), lower() and the "in" substring   *)
(* test are computed character by character as Python computes them.       *)
(***************************************************************************)
EXTENDS Integers, Sequences, FiniteSets, TLC

----------------------------------------------------------------------------
(* Python str primitives                                                   *)

\* ord(c) for the characters that occur in the model's strings.
Ord ==
       " " :> 32 @@ "(" :> 40 @@ "," :> 44 @@ "-" :> 45 @@ "/" :> 47 @@
       ";" :> 59 @@ "A" :> 65 @@ "I" :> 73 @@ "L" :> 76 @@ "T" :> 84 @@
       "_" :> 95 @@
       "a" :> 97 @@ "b" :> 98 @@ "c" :> 99 @@ "d" :> 100 @@ "e" :> 101 @@ "f" :> 102 @@ "g" :> 103 @@
       "h" :> 104 @@ "i" :> 105 @@ "j" :> 106 @@ "k" :> 107 @@ "l" :> 108 @@ "m" :> 109 @@ "n" :> 110 @@
       "o" :> 111 @@ "p" :> 112 @@ "q" :> 113 @@ "r" :> 114 @@ "s" :> 115 @@ "t" :> 116 @@ "u" :> 117 @@
       "v" :> 118 @@ "w" :> 119 @@ "x" :> 120 @@ "y" :> 121 @@ "z" :> 122 @@ "í" :> 237 @@
       "ñ" :> 241

\* str.lower() on one character: the upper-case letters of the model's
\* alphabet map to their lower-case letter, every other character to itself.
LowerChar(c) ==
    CASE c = "A" -> "a"
      [] c = "I" -> "i"
      [] c = "L" -> "l"
      [] c = "T" -> "t"
      [] OTHER -> c

\* str.lower()
Lower(s) == [i \in 1..Len(s) |-> LowerChar(s[i])]

\* str.isspace() on one character
IsSpace(c) == c = " "

\* s[i:] and s[:j] (0-based Python slices, as 1-based SubSeq)
DropFirst(s, n) == SubSeq(s, n + 1, Len(s))

RECURSIVE LStrip(_)
LStrip(s) ==
    IF s # <<>> /\ IsSpace(Head(s)) THEN LStrip(Tail(s)) ELSE s

RECURSIVE RStrip(_)
RStrip(s) ==
    IF s # <<>> /\ IsSpace(s[Len(s)]) THEN RStrip(SubSeq(s, 1, Len(s) - 1)) ELSE s

\* str.strip()
Strip(s) == RStrip(LStrip(s))

\* str.startswith(p)
StartsWith(s, p) == Len(s) >= Len(p) /\ SubSeq(s, 1, Len(p)) = p

\* "p in s" for strings: p occurs in s as a contiguous substring
Contains(s, p) ==
    \E i \in 1..(Len(s) - Len(p) + 1) : SubSeq(s, i, i + Len(p) - 1) = p

\* "c in s" for a single character c
HasChar(s, c) == \E i \in 1..Len(s) : s[i] = c

\* positions of the character c in s
Positions(s, c) == {i \in 1..Len(s) : s[i] = c}

Min(S) == CHOOSE m \in S : \A k \in S : m <= k
Max(S) == CHOOSE m \in S : \A k \in S : m >= k

\* s.split(c)[0]: the text before the first c (all of s when c is absent)
SplitFirst(s, c) ==
    IF HasChar(s, c) THEN SubSeq(s, 1, Min(Positions(s, c)) - 1) ELSE s

\* s.split(c)[-1]: the text after the last c (all of s when c is absent)
SplitLast(s, c) ==
    IF HasChar(s, c) THEN SubSeq(s, Max(Positions(s, c)) + 1, Len(s)) ELSE s

\* Python's str "<": lexicographic by code point, a proper prefix first
RECURSIVE StrLess(_, _)
StrLess(s, t) ==
    IF t = <<>> THEN FALSE
    ELSE IF s = <<>> THEN TRUE
    ELSE IF Ord[Head(s)] # Ord[Head(t)] THEN Ord[Head(s)] < Ord[Head(t)]
    ELSE StrLess(Tail(s), Tail(t))

----------------------------------------------------------------------------
(* Lemma Canonicalizer: ConceptDBBuilder._extract_english_lemma            *)

to_prefix == <<"t","o"," ">>

jargon_patterns ==
    <<
       <<"a","p","o","c","o","p","i","c"," ","f","o","r","m"," ","o","f">>,
       <<"f","e","m","i","n","i","n","e"," ","f","o","r","m"," ","o","f">>,
       <<"m","a","s","c","u","l","i","n","e"," ","f","o","r","m"," ","o","f">>,
       <<"p","l","u","r","a","l"," ","f","o","r","m"," ","o","f">>,
       <<"d","i","m","i","n","u","t","i","v","e"," ","o","f">>,
       <<"a","u","g","m","e","n","t","a","t","i","v","e"," ","o","f">>,
       <<"a","l","t","e","r","n","a","t","i","v","e"," ","f","o","r","m"," ","o","f">>,
       <<"a","r","c","h","a","i","c"," ","f","o","r","m"," ","o","f">>
    >>

separators == <<",", ";", "/">>

\* if translation.startswith('to '): translation = translation[3:]
StripInfinitive(translation) ==
    IF StartsWith(translation, to_prefix) THEN DropFirst(translation, 3)
    ELSE translation

\* if '(' in translation: translation = translation.split('(')[0].strip()
StripParenthetical(translation) ==
    IF HasChar(translation, "(") THEN Strip(SplitFirst(translation, "("))
    ELSE translation

\* the loop over jargon_patterns, from pattern number i on: the first
\* pattern found in translation.lower() while translation has a comma
\* replaces translation by its last comma-separated part and ends the loop
RECURSIVE JargonLoop(_, _)
JargonLoop(translation, i) ==
    IF i > Len(jargon_patterns) THEN translation
    ELSE IF Contains(Lower(translation), jargon_patterns[i])
            /\ HasChar(translation, ",")
         THEN Strip(SplitLast(translation, ","))
         ELSE JargonLoop(translation, i + 1)

\* the loop over separators, from separator number i on: the first
\* separator OF THE LIST that occurs in translation cuts it and ends the loop
RECURSIVE SeparatorLoop(_, _)
SeparatorLoop(translation, i) ==
    IF i > Len(separators) THEN translation
    ELSE IF HasChar(translation, separators[i])
         THEN Strip(SplitFirst(translation, separators[i]))
         ELSE SeparatorLoop(translation, i + 1)

\* the separator cut made before the jargon substitution
_extract_separators_first(translation) ==
    Strip(Lower(JargonLoop(SeparatorLoop(StripParenthetical(
        StripInfinitive(translation)), 1), 1)))

_extract_english_lemma(translation) ==
    Strip(Lower(SeparatorLoop(JargonLoop(StripParenthetical(
        StripInfinitive(translation)), 1), 1)))

----------------------------------------------------------------------------
(* Glosses                                                                 *)

\* "to be (copula)"
GlossToBe ==
    <<"t","o"," ","b","e"," ","(","c","o","p","u","l","a",")">>
\* "hello, hi, hey"
GlossHello ==
    <<"h","e","l","l","o",","," ","h","i",","," ","h","e","y">>
\* "apocopic form of mío, my"
GlossApocopic ==
    <<"a","p","o","c","o","p","i","c"," ","f","o","r","m"," ","o","f"," ","m","í","o",","," ","m","y">>
\* "greetings; hello (general salutation)"
GlossGreetings ==
    <<"g","r","e","e","t","i","n","g","s",";"," ","h","e","l","l","o"," ","(","g","e","n","e","r","a","l"," ","s","a","l","u","t","a","t","i","o","n",")">>
\* "a; b, c"
GlossMixed ==
    <<"a",";"," ","b",","," ","c">>
\* "to to be"
GlossToTo ==
    <<"t","o"," ","t","o"," ","b","e">>

----------------------------------------------------------------------------
(* Inputs of a build                                                       *)

\* LANGUAGES = ['en', 'es', 'fr', 'de', 'it']
LANGUAGES == <<"en", "es", "fr", "de", "it">>

\* the SQL NULL of a lemmas.db pos column
NULL == "NULL"

\* number of translation records in the translation databases of a build
MaxRecords == 4

\* number of rows over all the langpack lemmas.db files of a build
MaxLexRows == 2

\* rows (word, lemma, pos) a langpack lemmas.db may hold, per language
LexPool ==
    [lang \in {LANGUAGES[i] : i \in 1..Len(LANGUAGES)} |->
        CASE lang = "en" -> {<< <<"x">>, <<"x">>, "NOUN" >>}
          [] lang = "es" -> {<< <<"a","s">>, <<"a">>, "NOUN" >>,
                             << <<"a">>, <<"a">>, "VERB" >>}
          [] lang = "fr" -> {<< <<"b">>, <<"b">>, NULL >>}
          [] OTHER -> {}]

\* the sequences of distinct rows of a pool (the rows a SELECT returns)
RowSeqs(pool) ==
    {q \in UNION {[1..n -> pool] : n \in 0..Cardinality(pool)} :
        \A i, j \in 1..Len(q) : i # j => q[i] # q[j]}

\* langpacks/<lang>/lemmas.db is not there
MissingDb == [exists |-> FALSE, rows |-> <<>>]

\* the languages whose lemmas.db is missing when it would hold no row
MissingLangs == {"en", "de"}

\* what langpacks/<lang>/lemmas.db may be: a file with rows, a file without
\* rows, or no file
LexFiles(lang) ==
    IF lang \in MissingLangs
    THEN {[exists |-> TRUE, rows |-> q] : q \in RowSeqs(LexPool[lang]) \ {<<>>}}
             \cup {MissingDb}
    ELSE {[exists |-> TRUE, rows |-> q] : q \in RowSeqs(LexPool[lang])}

RECURSIVE SumLen(_, _)
SumLen(f, S) ==
    IF S = {} THEN 0
    ELSE LET k == CHOOSE k \in S : TRUE
         IN Len(f[k].rows) + SumLen(f, S \ {k})

\* the langpack databases a build may read
Lexicons ==
    {lx \in [DOMAIN LexPool -> UNION {LexFiles(l) : l \in DOMAIN LexPool}] :
        /\ \A l \in DOMAIN LexPool : lx[l] \in LexFiles(l)
        /\ SumLen(lx, DOMAIN LexPool) <= MaxLexRows}

\* rows (lemma_from, lang_from, translation, lang_to) of the translation
\* databases
RecordPool ==
    { << <<"b">>,     "es", <<"x">>,                 "en" >>,
      << <<"a">>,     "es", <<"x">>,                 "en" >>,
      << <<"a","b">>, "es", <<"x", ",", " ", "y">>,  "en" >>,
      << <<"a","a">>, "es", <<"t","o"," ","x">>,     "en" >>,
      << <<"a">>,     "fr", <<"x">>,                 "en" >>,
      << <<"a">>,     "es", <<"y", ";", " ", "x">>,  "en" >>,
      << <<"c">>,     "en", <<"x">>,                 "en" >>,
      << <<"a">>,     "es", <<"b">>,                 "fr" >> }

TranslationSets ==
    {T \in SUBSET RecordPool : Cardinality(T) <= MaxRecords}

\* the file of translations/ a row is read from: <lang1>-<lang2>.db holds
\* both directions of a language pair
DbName(row) ==
    IF row[2] = row[4] THEN <<"es", "en">>
    ELSE IF row[2] = "en" THEN <<row[4], row[2]>>
    ELSE <<row[2], row[4]>>

\* files of translations/ that give no row: one without a translations
\* table, one whose translations table is empty
BrokenPool ==
    { [name |-> <<"de", "en">>, has_table |-> FALSE, rows |-> {}],
      [name |-> <<"it", "en">>, has_table |-> TRUE,  rows |-> {}] }

\* the row-less files next to the rows T; a file counts like a row
BrokenSets(T) ==
    {B \in SUBSET BrokenPool : Cardinality(T) + Cardinality(B) <= MaxRecords}

\* translations_dir.glob('*.db')
DbFiles(T, B) ==
    {[name |-> n, has_table |-> TRUE, rows |-> {r \in T : DbName(r) = n}] :
        n \in {DbName(r) : r \in T}} \cup B

----------------------------------------------------------------------------
(* State                                                                   *)

VARIABLES
    lexicon,          \* langpacks/<lang>/lemmas.db: rows per language
    translations,     \* rows of translations/*.db
    broken_dbs,       \* files of translations/ without a table or a row
    pc,               \* position of main(): load, cache, ingest, cluster,
                      \* persist, done
    lang_idx,         \* extract_forms_and_lemmas: index into LANGUAGES
    row_idx,          \* extract_forms_and_lemmas: index into rows
    forms,            \* self.forms: list of (lang, form, lemma, pos)
    lemmas,           \* self.lemmas: (lang, lemma, pos) -> lemma_id
    next_lemma_id,    \* self.next_lemma_id
    concepts,         \* self.concepts: (english_lemma, pos) -> concept_id
    next_concept_id,  \* self.next_concept_id
    senses,           \* self.senses: list of (lemma_id, concept_id, rank)
    pos_cache,        \* pos_cache: (lang, lemma) -> pos
    english_hub,      \* english_hub: list of buckets in insertion order
    dbs_left,         \* files of translations/ not yet opened
    pending,          \* rows of the open file not yet processed
    processed,        \* rows of translations/*.db already fetched
    hub_idx,          \* position of the loop over english_hub.items()
    store,            \* concepts.db at the output path
    run,              \* number of the current run of main()
    prev,             \* concepts.db as it was when main() started
    ppc,              \* position of create_concepts_db
    txn,              \* the tables as the open transaction sees them
    gloss,            \* a gloss handed to the canonicalizer
    canon,            \* _extract_english_lemma(gloss)
    canon2,           \* _extract_english_lemma(canon)
    cpc,              \* how often the canonicalizer has been applied
    translations1,    \* pair builder: the lang1 -> lang2 list
    translations2,    \* pair builder: the lang2 -> lang1 list
    original1,        \* translations1 as extract_translations returned it
    original2,        \* translations2 as extract_translations returned it
    tpc,              \* position of the pair builder's main()
    pair_db,          \* the translations table of the pair database
    sense_gloss,      \* a gloss of a sense handed to the classifiers
    sense_categories, \* the category names of that sense
    class_mono,       \* its class by the tests of build_translations.py
    class_bi,         \* its class by the tests of
                      \* build_translations_bidirectional.py
    tech_result,      \* what is_technical_definition returned for it
    jsonl,            \* extract_translations: the lines of jsonl_file
    extractor,        \* which extract_translations runs, and its
                      \* lang_from and lang_to
    line_num,         \* the number of lines read
    extracted,        \* its list translations
    skipped_inflections,  \* its counters
    skipped_technical,
    xpc               \* its position: idle, lines, returned

vars ==
    << lexicon, translations, broken_dbs, pc, lang_idx, row_idx, forms,
       lemmas, next_lemma_id, concepts, next_concept_id, senses, pos_cache,
       english_hub, dbs_left, pending, processed, hub_idx, store, run, prev,
       ppc, txn, gloss, canon, canon2, cpc, translations1, translations2,
       original1, original2, tpc, pair_db, sense_gloss, sense_categories,
       class_mono, class_bi, tech_result, jsonl, extractor, line_num,
       extracted, skipped_inflections, skipped_technical, xpc >>

\* the variables of the canonicalizer runs
canon_vars == << gloss, canon, canon2, cpc >>

\* the output file and the runs of main()
run_vars == << store, run, prev, ppc, txn >>

\* the variables of build_translations_bidirectional.main
pair_vars ==
    << translations1, translations2, original1, original2, tpc, pair_db >>

\* the variables of the classifier runs
class_vars ==
    << sense_gloss, sense_categories, class_mono, class_bi, tech_result >>

\* the variables of extract_translations
extract_vars ==
    << jsonl, extractor, line_num, extracted, skipped_inflections,
       skipped_technical, xpc >>

\* the variables of the other programs
other_vars == << canon_vars, pair_vars, class_vars, extract_vars >>

\* extract_translations is not running
ExtractIdle ==
    /\ jsonl = <<>>
    /\ extractor = [impl |-> "none", lang_from |-> "", lang_to |-> ""]
    /\ line_num = 0
    /\ extracted = <<>>
    /\ skipped_inflections = 0
    /\ skipped_technical = 0
    /\ xpc = "idle"

\* no gloss is being classified
ClassIdle ==
    /\ sense_gloss = <<>>
    /\ sense_categories = <<>>
    /\ class_mono = "idle"
    /\ class_bi = "idle"
    /\ tech_result = "idle"

\* the pair builder is not running
PairIdle ==
    /\ translations1 = <<>>
    /\ translations2 = <<>>
    /\ original1 = <<>>
    /\ original2 = <<>>
    /\ tpc = "idle"
    /\ pair_db = <<>>

\* no concepts.db at the output path
NoStore == [file |-> "absent"]

\* create_concepts_db is not running
PersisterIdle ==
    /\ ppc = "idle"
    /\ txn = NoStore

\* no gloss is being canonicalized
CanonIdle ==
    /\ gloss = <<>>
    /\ canon = <<>>
    /\ canon2 = <<>>
    /\ cpc = "idle"

\* ConceptDBBuilder.__init__
BuilderInit ==
    /\ forms = <<>>
    /\ lemmas = <<>>
    /\ concepts = <<>>
    /\ senses = <<>>
    /\ next_lemma_id = 1
    /\ next_concept_id = 1

Init ==
    /\ lexicon \in Lexicons
    /\ translations \in TranslationSets
    /\ broken_dbs \in BrokenSets(translations)
    /\ pc = "load"
    /\ lang_idx = 1
    /\ row_idx = 1
    /\ BuilderInit
    /\ pos_cache = <<>>
    /\ english_hub = <<>>
    /\ dbs_left = {}
    /\ pending = {}
    /\ processed = {}
    /\ hub_idx = 1
    /\ store = NoStore
    /\ run = 1
    /\ prev = NoStore
    /\ PersisterIdle
    /\ CanonIdle
    /\ PairIdle
    /\ ClassIdle
    /\ ExtractIdle

----------------------------------------------------------------------------
(* Lexicon Loader: ConceptDBBuilder.extract_forms_and_lemmas               *)

\* d[key] = value for a dict d
DictSet(d, key, value) ==
    [k \in (DOMAIN d) \cup {key} |-> IF k = key THEN value ELSE d[k]]

\* one iteration of "for word, lemma, pos in rows"
LoadRow ==
    /\ pc = "load"
    /\ lang_idx <= Len(LANGUAGES)
    /\ lexicon[LANGUAGES[lang_idx]].exists
    /\ row_idx <= Len(lexicon[LANGUAGES[lang_idx]].rows)
    /\ LET lang == LANGUAGES[lang_idx]
           row == lexicon[lang].rows[row_idx]
           word == row[1]
           lemma == row[2]
           pos == IF row[3] = NULL THEN "UNKNOWN" ELSE row[3]
           lemma_key == <<lang, lemma, pos>>
       IN /\ forms' = Append(forms, <<lang, word, lemma, pos>>)
          /\ IF lemma_key \notin DOMAIN lemmas
             THEN /\ lemmas' = DictSet(lemmas, lemma_key, next_lemma_id)
                  /\ next_lemma_id' = next_lemma_id + 1
             ELSE UNCHANGED <<lemmas, next_lemma_id>>
    /\ row_idx' = row_idx + 1
    /\ UNCHANGED << lexicon, translations, broken_dbs, pc, lang_idx, concepts,
                    next_concept_id, senses, pos_cache, english_hub,
                    dbs_left, pending, processed, hub_idx, run_vars,
                    other_vars >>

\* the end of one iteration of "for lang in LANGUAGES", at once when
\* lemmas.db does not exist ("continue"); after the last language main()
\* goes on to build_concepts_from_translations
NextLanguage ==
    /\ pc = "load"
    /\ lang_idx <= Len(LANGUAGES)
    /\ \/ ~lexicon[LANGUAGES[lang_idx]].exists
       \/ row_idx > Len(lexicon[LANGUAGES[lang_idx]].rows)
    /\ lang_idx' = lang_idx + 1
    /\ row_idx' = 1
    /\ pc' = IF lang_idx = Len(LANGUAGES) THEN "cache" ELSE "load"
    /\ UNCHANGED << lexicon, translations, broken_dbs, forms, lemmas,
                    next_lemma_id, concepts, next_concept_id, senses,
                    pos_cache, english_hub, dbs_left, pending, processed,
                    hub_idx, run_vars, other_vars >>

----------------------------------------------------------------------------
(* Concept Clusterer: ConceptDBBuilder.build_concepts_from_translations    *)

\* the pos found last for a (lang, lemma) pair is kept
PosCacheOf_lastWins(reg) ==
    [cache_key \in {<<k[1], k[2]>> : k \in DOMAIN reg} |->
        LET same == {k \in DOMAIN reg : <<k[1], k[2]>> = cache_key}
            last == CHOOSE k \in same : \A o \in same : reg[o] <= reg[k]
        IN last[3]]

\* the pos cache loop: self.lemmas.items() is visited in insertion order,
\* which is the order of the lemma ids, and the first pos found for a
\* (lang, lemma) pair is kept
PosCacheOf(reg) ==
    [cache_key \in {<<k[1], k[2]>> : k \in DOMAIN reg} |->
        LET same == {k \in DOMAIN reg : <<k[1], k[2]>> = cache_key}
            first == CHOOSE k \in same : \A o \in same : reg[k] <= reg[o]
        IN first[3]]

\* pos_cache.get(cache_key, 'UNKNOWN')
PosCacheGet(cache, cache_key) ==
    IF cache_key \in DOMAIN cache THEN cache[cache_key] ELSE "UNKNOWN"

\* the cache is built, then the files of translations/ are listed
BuildPosCache ==
    /\ pc = "cache"
    /\ pos_cache' = PosCacheOf(lemmas)
    /\ english_hub' = <<>>
    /\ dbs_left' = DbFiles(translations, broken_dbs)
    /\ pending' = {}
    /\ processed' = {}
    /\ pc' = "ingest"
    /\ UNCHANGED << lexicon, translations, broken_dbs, lang_idx, row_idx,
                    forms, lemmas, next_lemma_id, concepts, next_concept_id,
                    senses, hub_idx, run_vars, other_vars >>

\* the test on the target language alone
IsEnTranslation_anySource(row) == row[4] = "en"

\* the test on the source language alone
IsEnTranslation_anyTarget(row) == row[2] # "en"

\* "if lang_to == 'en' and lang_from != 'en'": the row goes to
\* en_translations; every other row is dropped or goes to
\* direct_translations, which is never read
IsEnTranslation(row) == row[4] = "en" /\ row[2] # "en"

\* a bucket is never found again
BucketIndex_neverFound(hub, hub_key) == 0

\* index of the bucket of hub_key in english_hub, 0 when there is none
BucketIndex(hub, hub_key) ==
    IF \E i \in 1..Len(hub) : hub[i].key = hub_key
    THEN CHOOSE i \in 1..Len(hub) : hub[i].key = hub_key
    ELSE 0

\* the source key is added to its bucket once more when it is there
HubInsert_always(hub, hub_key, source_key, length) ==
    LET entry == [key |-> source_key, length |-> length]
    IN IF \E i \in 1..Len(hub) : hub[i].key = hub_key
       THEN LET at == CHOOSE i \in 1..Len(hub) : hub[i].key = hub_key
            IN [hub EXCEPT ![at].members = Append(@, entry)]
       ELSE Append(hub, [key |-> hub_key, members |-> <<entry>>])

\* if source_key not in english_hub[hub_key]:
\*     english_hub[hub_key][source_key] = len(lemma_from)
\* english_hub is a defaultdict(dict): reading a missing hub_key adds an
\* empty bucket at the end
HubInsert(hub, hub_key, source_key, length) ==
    LET entry == [key |-> source_key, length |-> length]
        at == BucketIndex(hub, hub_key)
    IN IF at = 0
       THEN Append(hub, [key |-> hub_key, members |-> <<entry>>])
       ELSE IF \E j \in 1..Len(hub[at].members) :
                    hub[at].members[j].key = source_key
            THEN hub
            ELSE [hub EXCEPT ![at].members = Append(@, entry)]

\* the hub key is built with 'UNKNOWN' in place of the cached pos
HubAfter_unknownPos(hub, cache, row) ==
    LET source_pos == PosCacheGet(cache, <<row[2], row[1]>>)
    IN HubInsert(hub, <<_extract_english_lemma(row[3]), "UNKNOWN">>,
                 <<row[2], row[1], source_pos>>, Len(row[1]))

\* the body of "for lemma_from, lang_from, translation in batch"
HubAfter(hub, cache, row) ==
    LET lemma_from == row[1]
        lang_from == row[2]
        english_lemma == _extract_english_lemma(row[3])
        source_pos == PosCacheGet(cache, <<lang_from, lemma_from>>)
        hub_key == <<english_lemma, source_pos>>
        source_key == <<lang_from, lemma_from, source_pos>>
    IN HubInsert(hub, hub_key, source_key, Len(lemma_from))

\* "if not cursor.fetchone()" and "if not rows": the file gives nothing
Skipped(db) == ~db.has_table \/ db.rows = {}

\* the files that are still visited once one file was skipped, had the
\* skip ended the loop
AfterSkip_break(left, db) == {}

\* "continue": the loop goes on with the files that are left
AfterSkip(left, db) == left \ {db}

\* one iteration of "for db_idx, db_path in enumerate(translation_dbs, 1)"
\* that ends in a "continue"; the files come in the order of glob(), which
\* is arbitrary
SkipDb ==
    /\ pc = "ingest"
    /\ pending = {}
    /\ \E db \in dbs_left :
        /\ Skipped(db)
        /\ dbs_left' = AfterSkip(dbs_left, db)
    /\ UNCHANGED << lexicon, translations, broken_dbs, pc, lang_idx, row_idx,
                    forms, lemmas, next_lemma_id, concepts, next_concept_id,
                    senses, pos_cache, english_hub, pending, processed,
                    hub_idx, run_vars, other_vars >>

\* the rows of the next file are fetched
OpenDb ==
    /\ pc = "ingest"
    /\ pending = {}
    /\ \E db \in dbs_left :
        /\ ~Skipped(db)
        /\ dbs_left' = dbs_left \ {db}
        /\ pending' = db.rows
    /\ UNCHANGED << lexicon, translations, broken_dbs, pc, lang_idx, row_idx,
                    forms, lemmas, next_lemma_id, concepts, next_concept_id,
                    senses, pos_cache, english_hub, processed, hub_idx,
                    run_vars, other_vars >>

\* one row of the open file: the rows come in the order of the SELECT,
\* which is arbitrary
IngestRecord ==
    /\ pc = "ingest"
    /\ \E row \in pending :
        /\ pending' = pending \ {row}
        /\ processed' = processed \cup {row}
        /\ english_hub' = IF IsEnTranslation(row)
                          THEN HubAfter(english_hub, pos_cache, row)
                          ELSE english_hub
    /\ UNCHANGED << lexicon, translations, broken_dbs, pc, lang_idx, row_idx,
                    forms, lemmas, next_lemma_id, concepts, next_concept_id,
                    senses, pos_cache, dbs_left, hub_idx, run_vars,
                    other_vars >>

\* the last translation database is closed
FinishIngest ==
    /\ pc = "ingest"
    /\ pending = {}
    /\ dbs_left = {}
    /\ pc' = "cluster"
    /\ hub_idx' = 1
    /\ UNCHANGED << lexicon, translations, broken_dbs, lang_idx, row_idx,
                    forms, lemmas, next_lemma_id, concepts, next_concept_id,
                    senses, pos_cache, english_hub, dbs_left, pending,
                    processed, run_vars, other_vars >>

\* key=lambda x: x[1]: the length alone
SortKeyLess_lengthOnly(x, y) == x.length < y.length

\* key=lambda x: (x[1], x[0][1]): (length, lemma) compared as Python tuples
SortKeyLess(x, y) ==
    \/ x.length < y.length
    \/ x.length = y.length /\ StrLess(x.key[2], y.key[2])

\* x put at the end, whatever its key
InsertSorted_atEnd(sorted, x) == Append(sorted, x)

\* x put into the sorted list after every element that is not greater
InsertSorted(sorted, x) ==
    LET n == Cardinality({i \in 1..Len(sorted) : ~SortKeyLess(x, sorted[i])})
    IN SubSeq(sorted, 1, n) \o <<x>> \o SubSeq(sorted, n + 1, Len(sorted))

\* the items left in insertion order
Sorted_insertionOrder(items) == items

\* sorted(translations.items(), key=...): a stable sort
RECURSIVE Sorted(_)
Sorted(items) ==
    IF items = <<>> THEN <<>>
    ELSE InsertSorted(Sorted(SubSeq(items, 1, Len(items) - 1)),
                      items[Len(items)])

\* the keys of translations_by_lang in insertion order: the languages of
\* sorted_translations in the order of their first entry
RECURSIVE LangOrder(_)
LangOrder(sorted) ==
    IF sorted = <<>> THEN <<>>
    ELSE LET rest == LangOrder(SubSeq(sorted, 1, Len(sorted) - 1))
             lang == sorted[Len(sorted)].key[1]
         IN IF \E i \in 1..Len(rest) : rest[i] = lang THEN rest
            ELSE Append(rest, lang)

\* translations_by_lang[lang]
LangTranslations(sorted, lang) ==
    SelectSeq(sorted, LAMBDA x : x.key[1] = lang)

\* lang_translations[:4]
TopThree_four(lang_translations) ==
    SubSeq(lang_translations, 1,
           IF Len(lang_translations) < 4 THEN Len(lang_translations) ELSE 4)

\* lang_translations[:3]
TopThree(lang_translations) ==
    SubSeq(lang_translations, 1,
           IF Len(lang_translations) < 3 THEN Len(lang_translations) ELSE 3)

\* enumerate(lang_translations[:3]): the ranks start at 0
Ranked_fromZero(lang_translations) ==
    LET top == SubSeq(lang_translations, 1,
                      IF Len(lang_translations) < 3
                      THEN Len(lang_translations) ELSE 3)
    IN [i \in 1..Len(top) |-> <<top[i].key, i - 1>>]

\* enumerate(lang_translations[:3], 1) as (lemma_key, rank_idx) pairs
Ranked(lang_translations) ==
    LET top == TopThree(lang_translations)
    IN [i \in 1..Len(top) |-> <<top[i].key, i>>]

\* the (lemma_key, rank_idx) pairs of all languages of one bucket, in the
\* order "for lang, lang_translations in translations_by_lang.items()"
RECURSIVE RankedAll(_, _, _)
RankedAll(sorted, langs, i) ==
    IF i > Len(langs) THEN <<>>
    ELSE Ranked(LangTranslations(sorted, langs[i]))
             \o RankedAll(sorted, langs, i + 1)

\* a new lemma registered without self.next_lemma_id += 1
LinkSense_noIncrement(st, lemma_key, concept_id, rank) ==
    LET known == lemma_key \in DOMAIN st.lemmas
        reg == IF known THEN st.lemmas
               ELSE DictSet(st.lemmas, lemma_key, st.next_lemma_id)
    IN [lemmas |-> reg,
        next_lemma_id |-> st.next_lemma_id,
        senses |-> Append(st.senses, <<reg[lemma_key], concept_id, rank>>)]

\* a new lemma is given an id but is not put into self.lemmas
LinkSense_unregistered(st, lemma_key, concept_id, rank) ==
    LET known == lemma_key \in DOMAIN st.lemmas
    IN [lemmas |-> st.lemmas,
        next_lemma_id |-> IF known THEN st.next_lemma_id
                          ELSE st.next_lemma_id + 1,
        senses |-> Append(st.senses,
                          <<IF known THEN st.lemmas[lemma_key]
                            ELSE st.next_lemma_id, concept_id, rank>>)]

\* the lemma gets the next lemma id, registered before or not
LinkSense_renumber(st, lemma_key, concept_id, rank) ==
    [lemmas |-> DictSet(st.lemmas, lemma_key, st.next_lemma_id),
     next_lemma_id |-> st.next_lemma_id + 1,
     senses |-> Append(st.senses, <<st.next_lemma_id, concept_id, rank>>)]

\* if lemma_key not in self.lemmas: add it with the next lemma id;
\* self.senses.append((lemma_id, concept_id, rank))
LinkSense(st, lemma_key, concept_id, rank) ==
    LET known == lemma_key \in DOMAIN st.lemmas
        reg == IF known THEN st.lemmas
               ELSE DictSet(st.lemmas, lemma_key, st.next_lemma_id)
    IN [lemmas |-> reg,
        next_lemma_id |-> IF known THEN st.next_lemma_id
                          ELSE st.next_lemma_id + 1,
        senses |-> Append(st.senses, <<reg[lemma_key], concept_id, rank>>)]

RECURSIVE LinkAll(_, _, _, _)
LinkAll(st, ranked, concept_id, i) ==
    IF i > Len(ranked) THEN st
    ELSE LinkAll(LinkSense(st, ranked[i][1], concept_id, ranked[i][2]),
                 ranked, concept_id, i + 1)

\* one iteration of "for (english_lemma, pos), translations in
\* english_hub.items()"
CreateConcept ==
    /\ pc = "cluster"
    /\ hub_idx <= Len(english_hub)
    /\ LET bucket == english_hub[hub_idx]
           english_lemma == bucket.key[1]
           pos == bucket.key[2]
           concept_id == next_concept_id
           sorted_translations == Sorted(bucket.members)
           ranked == RankedAll(sorted_translations,
                               LangOrder(sorted_translations), 1)
           st0 == [lemmas |-> lemmas, next_lemma_id |-> next_lemma_id,
                   senses |-> senses]
           st1 == LinkAll(st0, ranked, concept_id, 1)
           en_key == <<"en", english_lemma, pos>>
           st2 == LinkSense(st1, en_key, concept_id, 1)
       IN /\ next_concept_id' = next_concept_id + 1
          /\ concepts' = DictSet(concepts, <<english_lemma, pos>>, concept_id)
          /\ lemmas' = st2.lemmas
          /\ next_lemma_id' = st2.next_lemma_id
          /\ senses' = st2.senses
    /\ hub_idx' = hub_idx + 1
    /\ UNCHANGED << lexicon, translations, broken_dbs, pc, lang_idx, row_idx,
                    forms, pos_cache, english_hub, dbs_left, pending,
                    processed, run_vars, other_vars >>

\* build_concepts_from_translations returns
FinishCluster ==
    /\ pc = "cluster"
    /\ hub_idx > Len(english_hub)
    /\ pc' = "persist"
    /\ UNCHANGED << lexicon, translations, broken_dbs, lang_idx, row_idx,
                    forms, lemmas, next_lemma_id, concepts, next_concept_id,
                    senses, pos_cache, english_hub, dbs_left, pending,
                    processed, hub_idx, run_vars, other_vars >>

----------------------------------------------------------------------------
(* Graph Assembler/Persister: ConceptDBBuilder.create_concepts_db          *)

\* the tables right after the CREATE TABLE script
EmptyStore == [forms |-> <<>>, lemmas |-> <<>>, concepts |-> <<>>,
               senses |-> <<>>]

\* the values of a dict d as a list in insertion order; the ids of
\* self.lemmas and self.concepts grow with the insertion order
RECURSIVE ItemsById(_)
ItemsById(d) ==
    IF DOMAIN d = {} THEN <<>>
    ELSE LET last == CHOOSE k \in DOMAIN d : \A o \in DOMAIN d : d[o] <= d[k]
         IN Append(ItemsById([k \in (DOMAIN d) \ {last} |-> d[k]]),
                   <<last, d[last]>>)

\* lemma_rows: (lemma_id, lang, lemma, pos)
LemmaRows ==
    LET items == ItemsById(lemmas)
    IN [i \in 1..Len(items) |->
           <<items[i][2], items[i][1][1], items[i][1][2], items[i][1][3]>>]

\* form_rows: (lang, form, lemma_id) of the forms whose lemma is registered
FormRows ==
    LET kept == SelectSeq(forms,
                    LAMBDA f : <<f[1], f[3], f[4]>> \in DOMAIN lemmas)
    IN [i \in 1..Len(kept) |->
           <<kept[i][1], kept[i][2],
             lemmas[<<kept[i][1], kept[i][3], kept[i][4]>>]>>]

\* concept_rows: (concept_id, pos, gloss)
ConceptRows ==
    LET items == ItemsById(concepts)
    IN [i \in 1..Len(items) |->
           <<items[i][2], items[i][1][2], items[i][1][1]>>]

\* INSERT OR REPLACE: the stored row with the key of the new row gives way
\* to the new row
OnDuplicate_replace(table, row, n) ==
    Append(SelectSeq(table,
               LAMBDA t : SubSeq(t, 1, n) # SubSeq(row, 1, n)), row)

\* INSERT OR IGNORE: the new row is dropped and the table stays as it is
OnDuplicate(table, row, n) == table

\* INSERT OR IGNORE of rows whose primary key is their first n columns
RECURSIVE InsertOrIgnore(_, _, _)
InsertOrIgnore(table, rows, n) ==
    IF rows = <<>> THEN table
    ELSE LET row == Head(rows)
             dup == \E j \in 1..Len(table) :
                        SubSeq(table[j], 1, n) = SubSeq(row, 1, n)
         IN InsertOrIgnore(IF dup THEN OnDuplicate(table, row, n)
                                  ELSE Append(table, row),
                           Tail(rows), n)

\* no INSERT ever raises
LemmaConflict_never(rows) == FALSE

\* a plain INSERT raises on a duplicate of a unique key: the id, or
\* (lang, lemma, pos)
LemmaConflict(rows) ==
    \E i, j \in 1..Len(rows) :
        /\ i # j
        /\ \/ rows[i][1] = rows[j][1]
           \/ SubSeq(rows[i], 2, 4) = SubSeq(rows[j], 2, 4)

\* a plain INSERT raises on a duplicate of the id
ConceptConflict(rows) ==
    \E i, j \in 1..Len(rows) : i # j /\ rows[i][1] = rows[j][1]

\* the variables create_concepts_db reads and leaves alone
builder_vars ==
    << lexicon, translations, broken_dbs, lang_idx, row_idx, forms, lemmas,
       next_lemma_id, concepts, next_concept_id, senses, pos_cache,
       english_hub, dbs_left, pending, processed, hub_idx >>

\* "if output_path.exists(): output_path.unlink()"
RemoveOld ==
    /\ pc = "persist"
    /\ ppc = "idle"
    /\ store' = NoStore
    /\ ppc' = "schema"
    /\ UNCHANGED << builder_vars, pc, run, prev, txn, other_vars >>

\* sqlite3.connect and the CREATE TABLE script, which executescript
\* commits: the file holds the four empty tables
CreateSchema ==
    /\ pc = "persist"
    /\ ppc = "schema"
    /\ store' = EmptyStore
    /\ ppc' = "insert"
    /\ UNCHANGED << builder_vars, pc, run, prev, txn, other_vars >>

\* the tables after the four bulk inserts, had the inserts gone on top of
\* the rows of the file main() found
Inserted_merged(base) ==
    LET old == IF prev = NoStore THEN base ELSE prev
    IN [forms |-> InsertOrIgnore(old.forms, FormRows, 3),
        lemmas |-> old.lemmas \o LemmaRows,
        concepts |-> old.concepts \o ConceptRows,
        senses |-> InsertOrIgnore(old.senses, senses, 2)]

\* the tables after the four bulk inserts, as the transaction sees them;
\* base is what the tables hold when the transaction begins
Inserted(base) ==
    [forms |-> InsertOrIgnore(base.forms, FormRows, 3),
     lemmas |-> base.lemmas \o LemmaRows,
     concepts |-> base.concepts \o ConceptRows,
     senses |-> InsertOrIgnore(base.senses, senses, 2)]

\* BEGIN TRANSACTION and the four bulk inserts; a plain INSERT that raises
\* ends main() with the transaction open, and nothing of it is in the file
BulkInsert ==
    /\ pc = "persist"
    /\ ppc = "insert"
    /\ IF \/ LemmaConflict(store.lemmas \o LemmaRows)
          \/ ConceptConflict(store.concepts \o ConceptRows)
       THEN /\ pc' = "failed"
            /\ ppc' = "idle"
            /\ txn' = NoStore
       ELSE /\ pc' = pc
            /\ ppc' = "commit"
            /\ txn' = Inserted(store)
    /\ UNCHANGED << builder_vars, store, run, prev, other_vars >>

\* COMMIT
Commit ==
    /\ pc = "persist"
    /\ ppc = "commit"
    /\ store' = txn
    /\ txn' = NoStore
    /\ ppc' = "idle"
    /\ pc' = "done"
    /\ UNCHANGED << builder_vars, run, prev, other_vars >>

Next ==
    \/ LoadRow
    \/ NextLanguage
    \/ BuildPosCache
    \/ SkipDb
    \/ OpenDb
    \/ IngestRecord
    \/ FinishIngest
    \/ CreateConcept
    \/ FinishCluster
    \/ RemoveOld
    \/ CreateSchema
    \/ BulkInsert
    \/ Commit

Spec == Init /\ [][Next]_vars

----------------------------------------------------------------------------
(* A second run of main() on the same langpacks and translation databases  *)

\* main() is started again: a new ConceptDBBuilder, the same input files,
\* and the concepts.db of the first run still at the output path
Restart ==
    /\ pc = "done"
    /\ run = 1
    /\ run' = 2
    /\ prev' = store
    /\ pc' = "load"
    /\ lang_idx' = 1
    /\ row_idx' = 1
    /\ forms' = <<>>
    /\ lemmas' = <<>>
    /\ concepts' = <<>>
    /\ senses' = <<>>
    /\ next_lemma_id' = 1
    /\ next_concept_id' = 1
    /\ pos_cache' = <<>>
    /\ english_hub' = <<>>
    /\ dbs_left' = {}
    /\ pending' = {}
    /\ processed' = {}
    /\ hub_idx' = 1
    /\ UNCHANGED << lexicon, translations, broken_dbs, store, ppc, txn,
                    other_vars >>

NextRebuild ==
    \/ Next
    \/ Restart

SpecRebuild == Init /\ [][NextRebuild]_vars

----------------------------------------------------------------------------
(* The build on rows whose gloss canonicalizes to nothing, or to the       *)
(* source lemma, and on rows that repeat a source lemma in one bucket      *)

\* number of files and rows of translations/ in such a build
MaxEdgeRecords == 3

\* rows of translations/es-en.db and fr-en.db as extract_translations
\* leaves them: the gloss is not empty and is not the source word
EdgeRecordPool ==
    { << <<"a">>, "es", <<"t","o"," ","a">>, "en" >>,
      << <<"b">>, "es", <<"(","x",")">>,     "en" >>,
      << <<"a">>, "es", <<"x">>,             "en" >>,
      << <<"a">>, "es", <<"t","o"," ","x">>, "en" >>,
      << <<"b">>, "es", <<"x">>,             "en" >>,
      << <<"a">>, "fr", <<"x">>,             "en" >> }

EdgeTranslationSets ==
    {T \in SUBSET EdgeRecordPool : Cardinality(T) <= MaxEdgeRecords}

EdgeBrokenSets(T) ==
    {B \in SUBSET BrokenPool :
        Cardinality(T) + Cardinality(B) <= MaxEdgeRecords}

InitEdge ==
    /\ lexicon \in Lexicons
    /\ translations \in EdgeTranslationSets
    /\ broken_dbs \in EdgeBrokenSets(translations)
    /\ pc = "load"
    /\ lang_idx = 1
    /\ row_idx = 1
    /\ BuilderInit
    /\ pos_cache = <<>>
    /\ english_hub = <<>>
    /\ dbs_left = {}
    /\ pending = {}
    /\ processed = {}
    /\ hub_idx = 1
    /\ store = NoStore
    /\ run = 1
    /\ prev = NoStore
    /\ PersisterIdle
    /\ CanonIdle
    /\ PairIdle
    /\ ClassIdle
    /\ ExtractIdle

SpecEdge == InitEdge /\ [][Next]_vars

----------------------------------------------------------------------------
(* The canonicalizer on its own                                            *)

\* number of pieces a gloss is made of
MaxTokens == 3

\* the pieces glosses are made of
Tokens ==
    { <<"t","o"," ">>, <<"T","o"," ">>, <<"a">>, <<"b">>, <<",">>, <<";">>,
      <<"/">>, <<"(">>, <<" ">>,
      <<"d","i","m","i","n","u","t","i","v","e"," ","o","f">> }

RECURSIVE Join(_)
Join(pieces) ==
    IF pieces = <<>> THEN <<>> ELSE Head(pieces) \o Join(Tail(pieces))

Glosses ==
    {GlossToBe, GlossHello, GlossApocopic, GlossGreetings, GlossMixed,
     GlossToTo}
    \cup {Join(q) : q \in UNION {[1..n -> Tokens] : n \in 0..MaxTokens}}

\* no build is running
BuildIdle ==
    /\ lexicon = [lang \in DOMAIN LexPool |-> MissingDb]
    /\ translations = {}
    /\ broken_dbs = {}
    /\ pc = "idle"
    /\ lang_idx = 1
    /\ row_idx = 1
    /\ BuilderInit
    /\ pos_cache = <<>>
    /\ english_hub = <<>>
    /\ dbs_left = {}
    /\ pending = {}
    /\ processed = {}
    /\ hub_idx = 1
    /\ store = NoStore
    /\ run = 1
    /\ prev = NoStore
    /\ PersisterIdle

InitCanon ==
    /\ BuildIdle
    /\ gloss \in Glosses
    /\ canon = <<>>
    /\ canon2 = <<>>
    /\ cpc = "gloss"
    /\ PairIdle
    /\ ClassIdle
    /\ ExtractIdle

build_vars ==
    << lexicon, translations, broken_dbs, pc, lang_idx, row_idx, forms,
       lemmas, next_lemma_id, concepts, next_concept_id, senses, pos_cache,
       english_hub, dbs_left, pending, processed, hub_idx, run_vars >>

\* the canonicalizer applied to the gloss
Canonicalize ==
    /\ cpc = "gloss"
    /\ canon' = _extract_english_lemma(gloss)
    /\ cpc' = "once"
    /\ UNCHANGED << gloss, canon2, build_vars, pair_vars, class_vars,
                    extract_vars >>

\* the canonicalizer applied to its own result
Recanonicalize ==
    /\ cpc = "once"
    /\ canon2' = _extract_english_lemma(canon)
    /\ cpc' = "twice"
    /\ UNCHANGED << gloss, canon, build_vars, pair_vars, class_vars,
                    extract_vars >>

NextCanon ==
    \/ Canonicalize
    \/ Recanonicalize

SpecCanon == InitCanon /\ [][NextCanon]_vars

----------------------------------------------------------------------------
(* create_concepts_db on its own: the method on any builder object, at an  *)
(* output path that may hold the concepts.db of an earlier build           *)

\* number of entries over self.lemmas, self.forms, self.concepts and
\* self.senses of the builder
MaxTableRows == 3

\* keys (lang, lemma, pos) of self.lemmas
LemmaKeyPool ==
    { <<"es", <<"a">>, "NOUN">>, <<"es", <<"a">>, "VERB">> }

\* keys (gloss, pos) of self.concepts
ConceptKeyPool ==
    { << <<"x">>, "NOUN" >>, << <<"y">>, "NOUN" >> }

\* the ids a lemma or a concept may have been given
IdPool == {1, 2}

\* entries (lang, form, lemma, pos) of self.forms
FormPool ==
    { <<"es", <<"a","s">>, <<"a">>, "NOUN">>,
      <<"es", <<"a">>, <<"a">>, "VERB">> }

\* entries (lemma_id, concept_id, rank) of self.senses
SensePool == { <<1, 1, 1>>, <<1, 1, 2>>, <<2, 1, 1>> }

\* the dicts from some of the keys to the ids
DictsOver(keys, ids) == UNION {[K -> ids] : K \in SUBSET keys}

\* the lists of at most n entries of a pool
ListsOver(pool, n) == UNION {[1..k -> pool] : k \in 0..n}

\* the concepts.db an earlier build left: one French lemma and its form
OldStore ==
    [forms |-> << <<"fr", <<"b">>, 1>> >>,
     lemmas |-> << <<1, "fr", <<"b">>, "UNKNOWN">> >>,
     concepts |-> <<>>,
     senses |-> <<>>]

\* the largest id of a dict, 0 for an empty dict
MaxId(d) ==
    IF DOMAIN d = {} THEN 0
    ELSE CHOOSE n \in {d[k] : k \in DOMAIN d} : \A k \in DOMAIN d : d[k] <= n

\* main() has reached the call of create_concepts_db; the builder's fields
\* are public and the method reads them as they are
InitPersist ==
    /\ lexicon = [lang \in DOMAIN LexPool |-> MissingDb]
    /\ translations = {}
    /\ broken_dbs = {}
    /\ pc = "persist"
    /\ lang_idx = Len(LANGUAGES) + 1
    /\ row_idx = 1
    /\ lemmas \in DictsOver(LemmaKeyPool, IdPool)
    /\ concepts \in DictsOver(ConceptKeyPool, IdPool)
    /\ forms \in ListsOver(FormPool, MaxTableRows)
    /\ senses \in ListsOver(SensePool, MaxTableRows)
    /\ Cardinality(DOMAIN lemmas) + Cardinality(DOMAIN concepts)
           + Len(forms) + Len(senses) <= MaxTableRows
    /\ next_lemma_id = MaxId(lemmas) + 1
    /\ next_concept_id = MaxId(concepts) + 1
    /\ pos_cache = <<>>
    /\ english_hub = <<>>
    /\ dbs_left = {}
    /\ pending = {}
    /\ processed = {}
    /\ hub_idx = 1
    /\ store \in {NoStore, OldStore}
    /\ prev = store
    /\ run = 1
    /\ PersisterIdle
    /\ CanonIdle
    /\ PairIdle
    /\ ClassIdle
    /\ ExtractIdle

\* a call of sqlite3 raises, or the process is stopped, once the old file
\* is gone: what the transaction wrote never reaches the file
PersistCrash ==
    /\ pc = "persist"
    /\ ppc \in {"schema", "insert", "commit"}
    /\ pc' = "failed"
    /\ ppc' = "idle"
    /\ txn' = NoStore
    /\ UNCHANGED << builder_vars, store, run, prev, other_vars >>

NextPersist ==
    \/ RemoveOld
    \/ CreateSchema
    \/ BulkInsert
    \/ Commit
    \/ PersistCrash

SpecPersist == InitPersist /\ [][NextPersist]_vars

----------------------------------------------------------------------------
(* The gloss classifiers of build_translations.py and                      *)
(* build_translations_bidirectional.py                                     *)

\* A regular expression of the classifiers is a list of atoms; the atoms
\* are the pieces these expressions are made of.
Lit(s) == [t |-> "lit", s |-> s, opts |-> <<>>]

\* (w1|w2|...)
Alt(opts) == [t |-> "alt", s |-> <<>>, opts |-> opts]

\* \b
WordBoundary == [t |-> "wb", s |-> <<>>, opts |-> <<>>]

\* \w+
WordRun == [t |-> "word", s |-> <<>>, opts |-> <<>>]

\* .+?
AnyRun == [t |-> "any", s |-> <<>>, opts |-> <<>>]

\* (/\w+)*
SlashWordRuns == [t |-> "slashwords", s |-> <<>>, opts |-> <<>>]

\* ^
LineStart == [t |-> "bol", s |-> <<>>, opts |-> <<>>]

\* $
LineEnd == [t |-> "eol", s |-> <<>>, opts |-> <<>>]

\* \w on a str pattern: a letter, a digit or the underscore
IsWordChar(c) ==
    \/ Ord[c] \in 48..57
    \/ Ord[c] \in 65..90
    \/ Ord[c] = 95
    \/ Ord[c] \in 97..122
    \/ Ord[c] \in {237, 241}

\* the characters after position p up to position q are all word characters
AllWord(text, p, q) == \A k \in (p + 1)..q : IsWordChar(text[k])

\* \b at position p: exactly one of the characters before and after p is a
\* word character
AtBoundary(text, p) ==
    (p >= 1 /\ IsWordChar(text[p]))
        # (p < Len(text) /\ IsWordChar(text[p + 1]))

\* the literal s matches right after position p
LitAt(text, p, s) ==
    p + Len(s) <= Len(text) /\ SubSeq(text, p + 1, p + Len(s)) = s

\* the positions (/\w+)* can end at when it starts at a position of P
RECURSIVE SlashWordsFrom(_, _)
SlashWordsFrom(text, P) ==
    LET more == {q \in 0..Len(text) :
                    \E p \in P : /\ p + 1 < q
                                 /\ text[p + 1] = "/"
                                 /\ AllWord(text, p + 1, q)}
    IN IF more \subseteq P THEN P ELSE SlashWordsFrom(text, P \cup more)

\* the positions the atom can end at when it starts at a position of P; a
\* position is the number of characters before it
AtomEnds(atom, text, P) ==
    CASE atom.t = "lit" ->
             {p + Len(atom.s) : p \in {p \in P : LitAt(text, p, atom.s)}}
      [] atom.t = "alt" ->
             UNION {{p + Len(atom.opts[o]) :
                        p \in {p \in P : LitAt(text, p, atom.opts[o])}} :
                    o \in 1..Len(atom.opts)}
      [] atom.t = "wb" -> {p \in P : AtBoundary(text, p)}
      [] atom.t = "word" ->
             {q \in 0..Len(text) :
                 \E p \in P : p < q /\ AllWord(text, p, q)}
      [] atom.t = "any" ->
             {q \in 0..Len(text) : \E p \in P : p < q}
      [] atom.t = "slashwords" -> SlashWordsFrom(text, P)
      [] atom.t = "bol" -> P \cap {0}
      [] atom.t = "eol" -> P \cap {Len(text)}

\* the positions a match of the atoms i, i+1, ... can end at
RECURSIVE PatternEnds(_, _, _, _)
PatternEnds(pattern, i, text, P) ==
    IF i > Len(pattern) THEN P
    ELSE PatternEnds(pattern, i + 1, text, AtomEnds(pattern[i], text, P))

\* re.search(pattern, text) finds a match: the scan tries every start
re_search(pattern, text) ==
    PatternEnds(pattern, 1, text, 0..Len(text)) # {}

\* any(keyword in text for keyword in keywords)
AnyIn(keywords, text) ==
    \E k \in 1..Len(keywords) : Contains(text, keywords[k])

\* some pattern of the list is found in the text
AnySearch(patterns, text) ==
    \E k \in 1..Len(patterns) : re_search(patterns[k], text)

\* inflection_keywords of build_translations.py
inflection_keywords ==
    <<
      <<"i", "n", "f", "l", "e", "c", "t", "i", "o", "n", " ", "o", "f">>,
      <<"p", "l", "u", "r", "a", "l", " ", "o", "f">>,
      <<"s", "i", "n", "g", "u", "l", "a", "r", " ", "o", "f">>,
      <<"m", "a", "s", "c", "u", "l", "i", "n", "e", " ", "o", "f">>,
      <<"f", "e", "m", "i", "n", "i", "n", "e", " ", "o", "f">>,
      <<"p", "a", "s", "t", " ", "p", "a", "r", "t", "i", "c", "i", "p",
         "l", "e", " ", "o", "f">>,
      <<"g", "e", "r", "u", "n", "d", " ", "o", "f">>,
      <<"p", "r", "e", "s", "e", "n", "t", " ", "p", "a", "r", "t", "i",
         "c", "i", "p", "l", "e", " ", "o", "f">>,
      <<"i", "m", "p", "e", "r", "a", "t", "i", "v", "e", " ", "o", "f">>,
      <<"c", "o", "m", "b", "i", "n", "e", "d", " ", "w", "i", "t", "h">>,
      <<"a", "l", "t", "e", "r", "n", "a", "t", "i", "v", "e", " ", "s",
         "p", "e", "l", "l", "i", "n", "g", " ", "o", "f">>,
      <<"a", "l", "t", "e", "r", "n", "a", "t", "i", "v", "e", " ", "f",
         "o", "r", "m", " ", "o", "f">>,
      <<"o", "b", "s", "o", "l", "e", "t", "e", " ", "s", "p", "e", "l",
         "l", "i", "n", "g", " ", "o", "f">>,
      <<"a", "r", "c", "h", "a", "i", "c", " ", "f", "o", "r", "m", " ",
         "o", "f">>,
      <<"f", "e", "m", "a", "l", "e", " ", "e", "q", "u", "i", "v", "a",
         "l", "e", "n", "t">>,
      <<"m", "a", "l", "e", " ", "e", "q", "u", "i", "v", "a", "l", "e",
         "n", "t">>,
      <<"v", "o", "s", "e", "o">>
    >>

\* inflection_keywords of build_translations_bidirectional.py
inflection_keywords_bidirectional ==
    <<
      <<"i", "n", "f", "l", "e", "c", "t", "i", "o", "n", " ", "o", "f">>,
      <<"p", "l", "u", "r", "a", "l", " ", "o", "f">>,
      <<"s", "i", "n", "g", "u", "l", "a", "r", " ", "o", "f">>,
      <<"m", "a", "s", "c", "u", "l", "i", "n", "e", " ", "o", "f">>,
      <<"f", "e", "m", "i", "n", "i", "n", "e", " ", "o", "f">>,
      <<"n", "e", "u", "t", "e", "r", " ", "o", "f">>,
      <<"g", "e", "n", "i", "t", "i", "v", "e", " ", "o", "f">>,
      <<"d", "a", "t", "i", "v", "e", " ", "o", "f">>,
      <<"n", "o", "m", "i", "n", "a", "t", "i", "v", "e", " ", "o", "f">>,
      <<"a", "c", "c", "u", "s", "a", "t", "i", "v", "e", " ", "o", "f">>,
      <<"p", "a", "s", "t", " ", "p", "a", "r", "t", "i", "c", "i", "p",
         "l", "e", " ", "o", "f">>,
      <<"g", "e", "r", "u", "n", "d", " ", "o", "f">>,
      <<"p", "r", "e", "s", "e", "n", "t", " ", "p", "a", "r", "t", "i",
         "c", "i", "p", "l", "e", " ", "o", "f">>,
      <<"i", "m", "p", "e", "r", "a", "t", "i", "v", "e", " ", "o", "f">>,
      <<"c", "o", "m", "b", "i", "n", "e", "d", " ", "w", "i", "t", "h">>,
      <<"a", "l", "t", "e", "r", "n", "a", "t", "i", "v", "e", " ", "s",
         "p", "e", "l", "l", "i", "n", "g", " ", "o", "f">>,
      <<"a", "l", "t", "e", "r", "n", "a", "t", "i", "v", "e", " ", "f",
         "o", "r", "m", " ", "o", "f">>,
      <<"o", "b", "s", "o", "l", "e", "t", "e", " ", "s", "p", "e", "l",
         "l", "i", "n", "g", " ", "o", "f">>,
      <<"a", "r", "c", "h", "a", "i", "c", " ", "f", "o", "r", "m", " ",
         "o", "f">>,
      <<"f", "e", "m", "a", "l", "e", " ", "e", "q", "u", "i", "v", "a",
         "l", "e", "n", "t">>,
      <<"m", "a", "l", "e", " ", "e", "q", "u", "i", "v", "a", "l", "e",
         "n", "t">>,
      <<"v", "o", "s", "e", "o">>
    >>

\* specific_form_patterns, the same list in both files
specific_form_patterns ==
    <<
      \* \b(superlative|comparative|diminutive|augmentative) form of\b
      << WordBoundary,
         Alt(<<<<"s", "u", "p", "e", "r", "l", "a", "t", "i", "v", "e">>,
               <<"c", "o", "m", "p", "a", "r", "a", "t", "i", "v", "e">>,
               <<"d", "i", "m", "i", "n", "u", "t", "i", "v", "e">>,
               <<"a", "u", "g", "m", "e", "n", "t", "a", "t", "i", "v", "e">>>>),
         Lit(<<" ", "f", "o", "r", "m", " ", "o", "f">>),
         WordBoundary >>,
      \* \b(short|long|contracted|elided) form of\b
      << WordBoundary,
         Alt(<<<<"s", "h", "o", "r", "t">>,
               <<"l", "o", "n", "g">>,
               <<"c", "o", "n", "t", "r", "a", "c", "t", "e", "d">>,
               <<"e", "l", "i", "d", "e", "d">>>>),
         Lit(<<" ", "f", "o", "r", "m", " ", "o", "f">>),
         WordBoundary >>
    >>

\* inflection_patterns, the same list in both files
inflection_patterns ==
    <<
      \* \b\w+-person .+? (singular|plural) .+? of \w+$
      << WordBoundary,
         WordRun,
         Lit(<<"-", "p", "e", "r", "s", "o", "n", " ">>),
         AnyRun,
         Lit(<<" ">>),
         Alt(<<<<"s", "i", "n", "g", "u", "l", "a", "r">>,
               <<"p", "l", "u", "r", "a", "l">>>>),
         Lit(<<" ">>),
         AnyRun,
         Lit(<<" ", "o", "f", " ">>),
         WordRun,
         LineEnd >>,
      \* \b\w+-person .+? of \w+$
      << WordBoundary,
         WordRun,
         Lit(<<"-", "p", "e", "r", "s", "o", "n", " ">>),
         AnyRun,
         Lit(<<" ", "o", "f", " ">>),
         WordRun,
         LineEnd >>,
      \* subjunctive of
      << Lit(<<"s", "u", "b", "j", "u", "n", "c", "t", "i", "v", "e", " ",
                "o", "f">>) >>,
      \* indicative of
      << Lit(<<"i", "n", "d", "i", "c", "a", "t", "i", "v", "e", " ", "o",
                "f">>) >>,
      \* conditional of
      << Lit(<<"c", "o", "n", "d", "i", "t", "i", "o", "n", "a", "l", " ",
                "o", "f">>) >>,
      \* preterite of
      << Lit(<<"p", "r", "e", "t", "e", "r", "i", "t", "e", " ", "o", "f">>) >>,
      \* imperfect of
      << Lit(<<"i", "m", "p", "e", "r", "f", "e", "c", "t", " ", "o", "f">>) >>,
      \* future .+? of \w+
      << Lit(<<"f", "u", "t", "u", "r", "e", " ">>),
         AnyRun,
         Lit(<<" ", "o", "f", " ">>),
         WordRun >>
    >>

\* german_inflection_patterns of build_translations_bidirectional.py
german_inflection_patterns ==
    <<
      \* ^(weak|strong|mixed)(/\w+)* (nominative|genitive|dative|accusative)
      << LineStart,
         Alt(<<<<"w", "e", "a", "k">>,
               <<"s", "t", "r", "o", "n", "g">>,
               <<"m", "i", "x", "e", "d">>>>),
         SlashWordRuns,
         Lit(<<" ">>),
         Alt(<<<<"n", "o", "m", "i", "n", "a", "t", "i", "v", "e">>,
               <<"g", "e", "n", "i", "t", "i", "v", "e">>,
               <<"d", "a", "t", "i", "v", "e">>,
               <<"a", "c", "c", "u", "s", "a", "t", "i", "v", "e">>>>) >>,
      \* ^(nominative|genitive|dative|accusative) (singular|plural)
      << LineStart,
         Alt(<<<<"n", "o", "m", "i", "n", "a", "t", "i", "v", "e">>,
               <<"g", "e", "n", "i", "t", "i", "v", "e">>,
               <<"d", "a", "t", "i", "v", "e">>,
               <<"a", "c", "c", "u", "s", "a", "t", "i", "v", "e">>>>),
         Lit(<<" ">>),
         Alt(<<<<"s", "i", "n", "g", "u", "l", "a", "r">>,
               <<"p", "l", "u", "r", "a", "l">>>>) >>,
      \* \b(singular|plural) (nominative|genitive|dative|accusative)\b
      << WordBoundary,
         Alt(<<<<"s", "i", "n", "g", "u", "l", "a", "r">>,
               <<"p", "l", "u", "r", "a", "l">>>>),
         Lit(<<" ">>),
         Alt(<<<<"n", "o", "m", "i", "n", "a", "t", "i", "v", "e">>,
               <<"g", "e", "n", "i", "t", "i", "v", "e">>,
               <<"d", "a", "t", "i", "v", "e">>,
               <<"a", "c", "c", "u", "s", "a", "t", "i", "v", "e">>>>),
         WordBoundary >>,
      \* (nominative|genitive|dative|accusative)/(nominative|genitive|dative|accusative)
      << Alt(<<<<"n", "o", "m", "i", "n", "a", "t", "i", "v", "e">>,
               <<"g", "e", "n", "i", "t", "i", "v", "e">>,
               <<"d", "a", "t", "i", "v", "e">>,
               <<"a", "c", "c", "u", "s", "a", "t", "i", "v", "e">>>>),
         Lit(<<"/">>),
         Alt(<<<<"n", "o", "m", "i", "n", "a", "t", "i", "v", "e">>,
               <<"g", "e", "n", "i", "t", "i", "v", "e">>,
               <<"d", "a", "t", "i", "v", "e">>,
               <<"a", "c", "c", "u", "s", "a", "t", "i", "v", "e">>>>) >>,
      \* ^(comparative|superlative) degree
      << LineStart,
         Alt(<<<<"c", "o", "m", "p", "a", "r", "a", "t", "i", "v", "e">>,
               <<"s", "u", "p", "e", "r", "l", "a", "t", "i", "v", "e">>>>),
         Lit(<<" ", "d", "e", "g", "r", "e", "e">>) >>,
      \* \b(comparative|superlative) degree of\b
      << WordBoundary,
         Alt(<<<<"c", "o", "m", "p", "a", "r", "a", "t", "i", "v", "e">>,
               <<"s", "u", "p", "e", "r", "l", "a", "t", "i", "v", "e">>>>),
         Lit(<<" ", "d", "e", "g", "r", "e", "e", " ", "o", "f">>),
         WordBoundary >>,
      \* ^(first|second|third)-person (singular|plural)
      << LineStart,
         Alt(<<<<"f", "i", "r", "s", "t">>,
               <<"s", "e", "c", "o", "n", "d">>,
               <<"t", "h", "i", "r", "d">>>>),
         Lit(<<"-", "p", "e", "r", "s", "o", "n", " ">>),
         Alt(<<<<"s", "i", "n", "g", "u", "l", "a", "r">>,
               <<"p", "l", "u", "r", "a", "l">>>>) >>,
      \* \b(first|second|third)-person .+? (present|past|future|subjunctive|imperative|preterite)$
      << WordBoundary,
         Alt(<<<<"f", "i", "r", "s", "t">>,
               <<"s", "e", "c", "o", "n", "d">>,
               <<"t", "h", "i", "r", "d">>>>),
         Lit(<<"-", "p", "e", "r", "s", "o", "n", " ">>),
         AnyRun,
         Lit(<<" ">>),
         Alt(<<<<"p", "r", "e", "s", "e", "n", "t">>,
               <<"p", "a", "s", "t">>,
               <<"f", "u", "t", "u", "r", "e">>,
               <<"s", "u", "b", "j", "u", "n", "c", "t", "i", "v", "e">>,
               <<"i", "m", "p", "e", "r", "a", "t", "i", "v", "e">>,
               <<"p", "r", "e", "t", "e", "r", "i", "t", "e">>>>),
         LineEnd >>,
      \* (first|second|third)/(first|second|third)-person
      << Alt(<<<<"f", "i", "r", "s", "t">>,
               <<"s", "e", "c", "o", "n", "d">>,
               <<"t", "h", "i", "r", "d">>>>),
         Lit(<<"/">>),
         Alt(<<<<"f", "i", "r", "s", "t">>,
               <<"s", "e", "c", "o", "n", "d">>,
               <<"t", "h", "i", "r", "d">>>>),
         Lit(<<"-", "p", "e", "r", "s", "o", "n">>) >>,
      \* \ball-case (singular|plural)\b
      << WordBoundary,
         Lit(<<"a", "l", "l", "-", "c", "a", "s", "e", " ">>),
         Alt(<<<<"s", "i", "n", "g", "u", "l", "a", "r">>,
               <<"p", "l", "u", "r", "a", "l">>>>),
         WordBoundary >>,
      \* \ball-gender (singular|plural)\b
      << WordBoundary,
         Lit(<<"a", "l", "l", "-", "g", "e", "n", "d", "e", "r", " ">>),
         Alt(<<<<"s", "i", "n", "g", "u", "l", "a", "r">>,
               <<"p", "l", "u", "r", "a", "l">>>>),
         WordBoundary >>,
      \* ^(singular|plural) imperative$
      << LineStart,
         Alt(<<<<"s", "i", "n", "g", "u", "l", "a", "r">>,
               <<"p", "l", "u", "r", "a", "l">>>>),
         Lit(<<" ", "i", "m", "p", "e", "r", "a", "t", "i", "v", "e">>),
         LineEnd >>,
      \* ^(weak|strong|mixed) .+? (singular|plural) (comparative|superlative)
      << LineStart,
         Alt(<<<<"w", "e", "a", "k">>,
               <<"s", "t", "r", "o", "n", "g">>,
               <<"m", "i", "x", "e", "d">>>>),
         Lit(<<" ">>),
         AnyRun,
         Lit(<<" ">>),
         Alt(<<<<"s", "i", "n", "g", "u", "l", "a", "r">>,
               <<"p", "l", "u", "r", "a", "l">>>>),
         Lit(<<" ">>),
         Alt(<<<<"c", "o", "m", "p", "a", "r", "a", "t", "i", "v", "e">>,
               <<"s", "u", "p", "e", "r", "l", "a", "t", "i", "v", "e">>>>) >>,
      \* \b(comparative|superlative|positive) degree of \w+$
      << WordBoundary,
         Alt(<<<<"c", "o", "m", "p", "a", "r", "a", "t", "i", "v", "e">>,
               <<"s", "u", "p", "e", "r", "l", "a", "t", "i", "v", "e">>,
               <<"p", "o", "s", "i", "t", "i", "v", "e">>>>),
         Lit(<<" ", "d", "e", "g", "r", "e", "e", " ", "o", "f", " ">>),
         WordRun,
         LineEnd >>,
      \* \bdependent (subjunctive|preterite|imperative)\b
      << WordBoundary,
         Lit(<<"d", "e", "p", "e", "n", "d", "e", "n", "t", " ">>),
         Alt(<<<<"s", "u", "b", "j", "u", "n", "c", "t", "i", "v", "e">>,
               <<"p", "r", "e", "t", "e", "r", "i", "t", "e">>,
               <<"i", "m", "p", "e", "r", "a", "t", "i", "v", "e">>>>),
         WordBoundary >>
    >>

\* bad_categories, the same list in both files
bad_categories ==
    <<
      <<"l", "e", "t", "t", "e", "r", " ", "n", "a", "m", "e", "s">>,
      <<"p", "s", "y", "c", "h", "o", "a", "n", "a", "l", "y", "s", "i", "s">>,
      <<"c", "i", "t", "i", "e", "s">>,
      <<"p", "r", "o", "v", "i", "n", "c", "e", "s">>,
      <<"c", "o", "u", "n", "t", "r", "i", "e", "s">>,
      <<"p", "l", "a", "c", "e", " ", "n", "a", "m", "e", "s">>,
      <<"t", "o", "p", "o", "n", "y", "m", "s">>
    >>

\* technical_patterns, the same list in both files
technical_patterns ==
    <<
      <<"l", "e", "t", "t", "e", "r", " ", "o", "f", " ", "t", "h", "e">>,
      <<"n", "a", "m", "e", " ", "o", "f", " ", "t", "h", "e", " ", "l",
         "e", "t", "t", "e", "r">>,
      <<"t", "h", "e", " ", "n", "a", "m", "e", " ", "o", "f", " ", "t",
         "h", "e">>,
      <<"c", "a", "l", "l", "e", "d", " ", "y", "e">>,
      <<"c", "a", "l", "l", "e", "d", " ", "i", " ", "g", "r", "i", "e",
         "g", "a">>,
      <<"c", "a", "l", "l", "e", "d", " ", "e", "f">>,
      <<"a", "l", "p", "h", "a", "b", "e", "t">>,
      <<"w", "r", "i", "t", "t", "e", "n", " ", "i", "n", " ", "t", "h",
         "e", " ", "l", "a", "t", "i", "n", " ", "s", "c", "r", "i", "p", "t">>,
      <<"w", "r", "i", "t", "t", "e", "n", " ", "i", "n", " ", "t", "h", "e">>,
      <<"f", "r", "e", "u", "d">>,
      <<"j", "u", "n", "g">>,
      <<"p", "s", "y", "c", "h", "o", "a", "n", "a", "l", "y", "s", "i", "s">>,
      <<"c", "o", "n", "c", "e", "p", "t", " ", "o", "f", " ", "t", "h", "e">>,
      <<"g", "r", "e", "e", "k", " ", "l", "e", "t", "t", "e", "r">>,
      <<"l", "a", "t", "i", "n", " ", "l", "e", "t", "t", "e", "r">>,
      <<"l", "a", "t", "i", "n", "-", "s", "c", "r", "i", "p", "t", " ",
         "l", "e", "t", "t", "e", "r">>,
      <<"i", "n", "i", "t", "i", "a", "l", "i", "s", "m">>,
      <<"a", "b", "b", "r", "e", "v", "i", "a", "t", "i", "o", "n">>,
      <<"m", "i", "s", "s", "p", "e", "l", "l", "i", "n", "g">>,
      <<"d", "i", "m", "i", "n", "u", "t", "i", "v", "e", " ", "o", "f">>,
      <<"a", "u", "g", "m", "e", "n", "t", "a", "t", "i", "v", "e", " ",
         "o", "f">>,
      <<"a", " ", "c", "i", "t", "y">>,
      <<"a", " ", "s", "u", "b", "u", "r", "b">>,
      <<"a", " ", "t", "o", "w", "n">>,
      <<"a", " ", "v", "i", "l", "l", "a", "g", "e">>,
      <<"a", " ", "c", "e", "n", "s", "u", "s", "-", "d", "e", "s", "i",
         "g", "n", "a", "t", "e", "d", " ", "p", "l", "a", "c", "e">>,
      <<"a", " ", "c", "o", "m", "u", "n", "e">>,
      <<"a", " ", "p", "r", "o", "v", "i", "n", "c", "e">>,
      <<"c", "a", "p", "i", "t", "a", "l", " ", "o", "f">>,
      <<"a", " ", "s", "t", "a", "t", "e", " ", "o", "f">>,
      <<"a", " ", "n", "u", "m", "b", "e", "r", " ", "o", "f", " ", "p",
         "l", "a", "c", "e", "s">>,
      <<"c", "o", "u", "n", "t", "y", ",">>,
      <<"a", " ", "c", "o", "u", "n", "t", "r", "y">>,
      <<"a", " ", "r", "e", "g", "i", "o", "n">>
    >>

\* is_inflected_form_definition of build_translations.py
is_inflected_form_definition(gloss_text) ==
    LET gloss_lower == Lower(gloss_text)
    IN \/ AnyIn(inflection_keywords, gloss_lower)
       \/ AnySearch(specific_form_patterns, gloss_lower)
       \/ AnySearch(inflection_patterns, gloss_lower)

\* is_inflected_form_definition of build_translations_bidirectional.py
is_inflected_form_definition_bidirectional(gloss_text) ==
    LET gloss_lower == Lower(gloss_text)
    IN \/ AnyIn(inflection_keywords_bidirectional, gloss_lower)
       \/ AnySearch(specific_form_patterns, gloss_lower)
       \/ AnySearch(inflection_patterns, gloss_lower)
       \/ AnySearch(german_inflection_patterns, gloss_lower)

\* the category names are not looked at
is_technical_definition_textOnly(gloss_text, category_names) ==
    AnyIn(technical_patterns, Lower(gloss_text))

\* is_technical_definition, the same code in both files; a category name is
\* [is_str, text], and a name that is no str is passed over
is_technical_definition(gloss_text, category_names) ==
    \/ \E c \in 1..Len(category_names) :
           /\ category_names[c].is_str
           /\ AnyIn(bad_categories, Lower(category_names[c].text))
    \/ AnyIn(technical_patterns, Lower(gloss_text))

\* what extract_translations does with a gloss of a sense in
\* build_translations_bidirectional.py: the inflection test comes first,
\* then the technical test, and a gloss that passes both is kept
ClassOf(inflected, technical) ==
    IF inflected THEN "inflection"
    ELSE IF technical THEN "technical"
    ELSE "genuine"

----------------------------------------------------------------------------
(* The pair builder: main() of build_translations_bidirectional.py         *)

SPARSE_THRESHOLD == 10000

RICH_THRESHOLD == 100000

\* number of blocks a list of translations is made of
MaxRuns == 2

\* A list of translations is written as a list of blocks. A block
\* [rec, n] stands for n records in a row that share the languages of rec
\* and differ in the lemma: the k-th record of the block is the k-th entry
\* of the dictionary that falls under rec.
BlockSizes == {1, 9999, 50000, 100000}

\* the two languages of the pair, "es-en" on the command line
lang1 == "es"
lang2 == "en"

\* the lang1 -> lang2 blocks extract_translations may return
Blocks1 ==
    {[rec |-> r, n |-> n] :
        r \in { << <<"a">>, "es", <<"x">>, "en" >>,
                << <<"b">>, "es", <<"y">>, "en" >> },
        n \in BlockSizes}

\* the lang2 -> lang1 blocks extract_translations may return
Blocks2 ==
    {[rec |-> r, n |-> n] :
        r \in { << <<"x">>, "en", <<"a">>, "es" >>,
                << <<"z">>, "en", <<"c">>, "es" >> },
        n \in BlockSizes}

\* len(translations)
RECURSIVE ListLen(_)
ListLen(list) ==
    IF list = <<>> THEN 0 ELSE Head(list).n + ListLen(Tail(list))

\* the records come back as they are
reverse_translations_unswapped(list) == list

\* lemma and translation change places, the two languages stay
reverse_translations_wordsOnly(list) ==
    [i \in 1..Len(list) |->
        [rec |-> <<list[i].rec[3], list[i].rec[2],
                   list[i].rec[1], list[i].rec[4]>>,
         n |-> list[i].n]]

\* reverse_translations: (lemma_from, lang_from, translation, lang_to)
\* becomes (translation, lang_to, lemma_from, lang_from), record by record
\* and in the order of the list
reverse_translations(list) ==
    [i \in 1..Len(list) |->
        [rec |-> <<list[i].rec[3], list[i].rec[4],
                   list[i].rec[1], list[i].rec[2]>>,
         n |-> list[i].n]]

\* "<= SPARSE_THRESHOLD"
IsSparse_inclusive(count) == count <= SPARSE_THRESHOLD

\* "original_count < SPARSE_THRESHOLD"
IsSparse(count) == count < SPARSE_THRESHOLD

\* "original_count > RICH_THRESHOLD"
IsRich(count) == count > RICH_THRESHOLD

\* INSERT OR IGNORE under UNIQUE(lemma_from, lang_from, translation,
\* lang_to): of the blocks that fall under one rec the longest one decides
\* how many rows are stored
InsertedRows(list) ==
    [r \in {list[i].rec : i \in 1..Len(list)} |->
        LET sizes == {list[i].n : i \in {i \in 1..Len(list) : list[i].rec = r}}
        IN CHOOSE n \in sizes : \A m \in sizes : m <= n]

\* both calls of extract_translations have returned
InitPair ==
    /\ BuildIdle
    /\ CanonIdle
    /\ translations1 \in ListsOver(Blocks1, MaxRuns)
    /\ translations2 \in ListsOver(Blocks2, MaxRuns)
    /\ original1 = translations1
    /\ original2 = translations2
    /\ tpc = "extracted"
    /\ pair_db = <<>>
    /\ ClassIdle
    /\ ExtractIdle

\* "if not translations1 and not translations2: sys.exit(1)"
CheckExtracted ==
    /\ tpc = "extracted"
    /\ tpc' = IF translations1 = <<>> /\ translations2 = <<>>
              THEN "aborted" ELSE "augment"
    /\ UNCHANGED << translations1, translations2, original1, original2,
                    pair_db, build_vars, canon_vars, class_vars,
                    extract_vars >>

\* the if / elif / else on the two counts
Augment ==
    /\ tpc = "augment"
    /\ LET original_count1 == ListLen(translations1)
           original_count2 == ListLen(translations2)
       IN IF IsSparse(original_count1) /\ IsRich(original_count2)
          THEN /\ translations1' =
                      translations1 \o reverse_translations(translations2)
               /\ translations2' = translations2
          ELSE IF IsSparse(original_count2) /\ IsRich(original_count1)
          THEN /\ translations2' =
                      translations2 \o reverse_translations(translations1)
               /\ translations1' = translations1
          ELSE UNCHANGED << translations1, translations2 >>
    /\ tpc' = "write"
    /\ UNCHANGED << original1, original2, pair_db, build_vars, canon_vars,
                    class_vars,
                    extract_vars >>

\* create_translation_db and the two calls of insert_translations
WritePairDb ==
    /\ tpc = "write"
    /\ pair_db' = InsertedRows(translations1 \o translations2)
    /\ tpc' = "done"
    /\ UNCHANGED << translations1, translations2, original1, original2,
                    build_vars, canon_vars, class_vars,
                    extract_vars >>

NextPair ==
    \/ CheckExtracted
    \/ Augment
    \/ WritePairDb

SpecPair == InitPair /\ [][NextPair]_vars

----------------------------------------------------------------------------
(* The classifiers on their own                                            *)

GlossThirdPerson ==
    <<"t","h","i","r","d","-","p","e","r","s","o","n"," ","p","l","u","r","a","l"," ","f","u","t","u","r","e"," ","i","n","d","i","c","a","t","i","v","e"," ","o","f"," ","m","u","ñ","i","r">>

GlossCity ==
    <<"a"," ","c","i","t","y"," ","i","n"," ","L","o","m","b","a","r","d","y">>

GlossPronoun ==
    <<"f","i","r","s","t","-","p","e","r","s","o","n"," ","s","i","n","g","u","l","a","r"," ","p","r","o","n","o","u","n",";"," ","I">>

\* number of pieces a gloss of a sense is made of
MaxParts == 2

\* the pieces the glosses of senses are made of
ClassTokens ==
    { <<"f","i","r","s","t","-","p","e","r","s","o","n">>, <<" ">>,
      <<"s","i","n","g","u","l","a","r">>, <<"p","l","u","r","a","l">>,
      <<"p","r","o","n","o","u","n",";"," ","I">>,
      <<"f","u","t","u","r","e">>,
      <<"i","n","d","i","c","a","t","i","v","e">>, <<"o","f">>,
      <<"m","u","ñ","i","r">>, <<"a"," ","c","i","t","y">> }

ClassGlosses ==
    {GlossThirdPerson, GlossCity, GlossPronoun}
    \cup {Join(q) : q \in UNION {[1..n -> ClassTokens] : n \in 0..MaxParts}}

\* the lists of category names of a sense: none, a denylisted topic, a
\* name that is no str (None, or a list that holds the text)
CategoryLists ==
    { <<>>,
      << [is_str |-> TRUE, text |-> <<"T","o","p","o","n","y","m","s">>] >>,
      << [is_str |-> FALSE, text |-> <<>>] >>,
      << [is_str |-> FALSE, text |-> <<"c","i","t","i","e","s">>],
         [is_str |-> TRUE, text |-> <<"T","o","p","o","n","y","m","s">>] >>,
      << [is_str |-> FALSE, text |-> <<"c","i","t","i","e","s">>] >> }

InitClassify ==
    /\ BuildIdle
    /\ CanonIdle
    /\ PairIdle
    /\ sense_gloss \in ClassGlosses
    /\ sense_categories \in CategoryLists
    /\ class_mono = "none"
    /\ class_bi = "none"
    /\ tech_result = "none"
    /\ ExtractIdle

\* the tests of build_translations.py on the gloss
ClassifyMono ==
    /\ class_mono = "none"
    /\ class_mono' =
           ClassOf(is_inflected_form_definition(sense_gloss),
                   is_technical_definition(sense_gloss, sense_categories))
    /\ UNCHANGED << sense_gloss, sense_categories, class_bi, tech_result,
                    build_vars, canon_vars, pair_vars,
                    extract_vars >>

\* the tests of build_translations_bidirectional.py on the gloss
ClassifyBidirectional ==
    /\ class_bi = "none"
    /\ class_bi' =
           ClassOf(is_inflected_form_definition_bidirectional(sense_gloss),
                   is_technical_definition(sense_gloss, sense_categories))
    /\ UNCHANGED << sense_gloss, sense_categories, class_mono, tech_result,
                    build_vars, canon_vars, pair_vars,
                    extract_vars >>

\* is_technical_definition called on the gloss and the category names
ApplyTechnical ==
    /\ tech_result = "none"
    /\ tech_result' =
           IF is_technical_definition(sense_gloss, sense_categories)
           THEN "yes" ELSE "no"
    /\ UNCHANGED << sense_gloss, sense_categories, class_mono, class_bi,
                    build_vars, canon_vars, pair_vars,
                    extract_vars >>

NextClassify ==
    \/ ClassifyMono
    \/ ClassifyBidirectional
    \/ ApplyTechnical

SpecClassify == InitClassify /\ [][NextClassify]_vars

----------------------------------------------------------------------------
(* The Translation Ingestor: extract_translations of build_translations.py *)
(* and of build_translations_bidirectional.py                              *)

\* number of lines of a JSONL file
MaxLines == 2

\* a value of a JSON entry that should be a str: a str, or something else
\* (null, a number, a list) that may hold a text
Str(text) == [is_str |-> TRUE, text |-> text]
NonStr(text) == [is_str |-> FALSE, text |-> text]

\* an item of "categories": a dict with an 'orig' value, or no dict
Category(orig) == [is_dict |-> TRUE, orig |-> orig]
NoDict == [is_dict |-> FALSE, orig |-> NonStr(<<>>)]

\* a line that json.loads rejects
BadLine == [parses |-> FALSE, word |-> <<>>, senses |-> <<>>,
            translations |-> <<>>]

\* a line that holds a JSON object with 'word', 'senses' and 'translations'
Entry(word, senses_list, trans_list) ==
    [parses |-> TRUE, word |-> word, senses |-> senses_list,
     translations |-> trans_list]

Sense(glosses, categories) == [glosses |-> glosses, categories |-> categories]

Trans(code, word) == [code |-> code, word |-> word]

\* the lines a JSONL file is made of
LinePool ==
    { BadLine,
      Entry(<<>>, <<Sense(<<Str(<<"x">>)>>, <<>>)>>,
            <<Trans("es", <<"x","y">>)>>),
      Entry(<<" ">>, <<Sense(<<Str(<<"x">>)>>, <<>>)>>, <<>>),
      Entry(<<"a">>, <<Sense(<<Str(<<"x">>)>>, <<>>)>>,
            <<Trans("es", <<"x","y">>)>>),
      Entry(<<"a","b">>,
            <<Sense(<<Str(<<>>), NonStr(<<"y">>), Str(<<"x">>)>>, <<>>)>>,
            <<Trans("fr", <<"z","z">>), Trans("es", <<>>),
              Trans("es", <<"x","y">>)>>),
      Entry(<<"a","b">>,
            <<Sense(<<Str(<<"a","b">>), Str(<<" ">>)>>, <<>>)>>,
            <<Trans("es", <<"a","b">>), Trans("es", <<"x">>)>>),
      Entry(<<" ","A","b">>, <<Sense(<<Str(<<"A"," ","x"," ">>)>>, <<>>)>>,
            <<Trans("es", <<" ","A","x">>)>>),
      Entry(<<"a","b">>,
            <<Sense(<<Str(<<"p","l","u","r","a","l"," ","o","f"," ","x">>), Str(<<"y">>)>>, <<>>),
              Sense(<<Str(<<"z">>)>>, <<NoDict>>)>>,
            <<>>),
      Entry(<<"a","b">>,
            <<Sense(<<Str(<<"x">>)>>,
                    <<NoDict, Category(NonStr(<<>>)),
                      Category(Str(<<"T","o","p","o","n","y","m","s">>))>>)>>,
            <<>>),
      Entry(<<"a","b">>,
            <<Sense(<<Str(<<"x">>), Str(<<"y">>), NonStr(<<"v">>),
                      Str(<<"z">>), Str(<<"w">>)>>, <<>>)>>,
            <<Trans("es", <<"x","x">>), Trans("es", <<"y","y">>),
              Trans("es", <<"z","z">>), Trans("es", <<"w","w">>)>>) }

\* the JSONL files: the sequences of at most MaxLines lines
JsonlFiles == UNION {[1..n -> LinePool] : n \in 0..MaxLines}

\* the calls of extract_translations: build_translations.py reads glosses,
\* build_translations_bidirectional.py reads glosses unless lang_from is
\* 'en'
Extractors ==
    { [impl |-> "mono", lang_from |-> "es", lang_to |-> "en"],
      [impl |-> "bidirectional", lang_from |-> "es", lang_to |-> "en"],
      [impl |-> "bidirectional", lang_from |-> "en", lang_to |-> "es"] }

\* entry.get('word', '').strip().lower()
EntryWord(entry) == Lower(Strip(entry.word))

\* every value is taken for a usable gloss
GlossUsable_any(g) == TRUE

\* the negation of "not gloss or not isinstance(gloss, str)"
GlossUsable(g) == g.is_str /\ g.text # <<>>

\* [cat.get('orig', '') for cat in categories if isinstance(cat, dict)]
CategoryNames(categories) ==
    LET dicts == SelectSeq(categories, LAMBDA c : c.is_dict)
    IN [i \in 1..Len(dicts) |-> dicts[i].orig]

\* the state of the loops of one call: the list, the counters, the number
\* of records added for the sense or entry, and whether "break" was reached
LoopState(out, infl, tech) ==
    [out |-> out, infl |-> infl, tech |-> tech, added |-> 0,
     stopped |-> FALSE]

\* translations.append(...); glosses_added += 1; break at 3
Added(acc, record) ==
    [acc EXCEPT !.out = Append(@, record),
                !.added = @ + 1,
                !.stopped = (acc.added + 1 >= 3)]

\* the body of "for gloss in glosses", build_translations.py
GlossStepMono(acc, word, g, category_names, ex) ==
    IF acc.stopped \/ ~GlossUsable(g) THEN acc
    ELSE IF is_technical_definition(g.text, category_names)
    THEN [acc EXCEPT !.tech = @ + 1]
    ELSE LET translation == Lower(Strip(g.text))
         IN IF translation # <<>> /\ translation # word
            THEN Added(acc, <<word, ex.lang_from, translation, ex.lang_to>>)
            ELSE acc

\* the body of "for gloss in glosses", build_translations_bidirectional.py
GlossStepBidirectional(acc, word, g, category_names, ex) ==
    IF acc.stopped \/ ~GlossUsable(g) THEN acc
    ELSE IF is_inflected_form_definition_bidirectional(g.text)
    THEN [acc EXCEPT !.infl = @ + 1]
    ELSE IF is_technical_definition(g.text, category_names)
    THEN [acc EXCEPT !.tech = @ + 1]
    ELSE LET translation == Lower(Strip(g.text))
         IN IF translation # <<>> /\ translation # word
            THEN Added(acc, <<word, ex.lang_from, translation, ex.lang_to>>)
            ELSE acc

\* "for gloss in glosses" from gloss i on
RECURSIVE GlossLoop(_, _, _, _, _, _)
GlossLoop(acc, word, glosses, category_names, ex, i) ==
    IF i > Len(glosses) THEN acc
    ELSE GlossLoop(IF ex.impl = "mono"
                   THEN GlossStepMono(acc, word, glosses[i],
                                      category_names, ex)
                   ELSE GlossStepBidirectional(acc, word, glosses[i],
                                               category_names, ex),
                   word, glosses, category_names, ex, i + 1)

\* any(is_inflected_form_definition(g) for g in glosses
\*     if isinstance(g, str))
AnyGlossInflected(glosses) ==
    \E i \in 1..Len(glosses) :
        glosses[i].is_str /\ is_inflected_form_definition(glosses[i].text)

\* the body of "for sense in senses"
SenseStep(acc, word, sense, ex) ==
    LET fresh == [acc EXCEPT !.added = 0, !.stopped = FALSE]
        category_names == CategoryNames(sense.categories)
    IN IF ex.impl = "mono" /\ AnyGlossInflected(sense.glosses)
       THEN [fresh EXCEPT !.infl = @ + 1]
       ELSE GlossLoop(fresh, word, sense.glosses, category_names, ex, 1)

RECURSIVE SenseLoop(_, _, _, _, _)
SenseLoop(acc, word, senses_list, ex, i) ==
    IF i > Len(senses_list) THEN acc
    ELSE SenseLoop(SenseStep(acc, word, senses_list[i], ex),
                   word, senses_list, ex, i + 1)

\* the body of "for trans in trans_list"
TransStep(acc, word, trans, ex) ==
    IF acc.stopped \/ trans.code # ex.lang_to THEN acc
    ELSE LET translation_word == Lower(Strip(trans.word))
         IN IF translation_word = <<>> \/ translation_word = word THEN acc
            ELSE IF Len(translation_word) = 1
            THEN [acc EXCEPT !.tech = @ + 1]
            ELSE Added(acc, <<word, ex.lang_from, translation_word,
                              ex.lang_to>>)

RECURSIVE TransLoop(_, _, _, _, _)
TransLoop(acc, word, trans_list, ex, i) ==
    IF i > Len(trans_list) THEN acc
    ELSE TransLoop(TransStep(acc, word, trans_list[i], ex),
                   word, trans_list, ex, i + 1)

\* the body of "for line_num, line in enumerate(f, 1)"
LineStep(acc, line, ex) ==
    IF ~line.parses THEN acc
    ELSE LET word == EntryWord(line)
             fresh == [acc EXCEPT !.added = 0, !.stopped = FALSE]
         IN IF word = <<>> THEN acc
            ELSE IF Len(word) = 1 THEN [acc EXCEPT !.tech = @ + 1]
            ELSE IF ex.impl = "bidirectional" /\ ex.lang_from = "en"
            THEN TransLoop(fresh, word, line.translations, ex, 1)
            ELSE SenseLoop(fresh, word, line.senses, ex, 1)

InitExtract ==
    /\ BuildIdle
    /\ CanonIdle
    /\ PairIdle
    /\ ClassIdle
    /\ jsonl \in JsonlFiles
    /\ extractor \in Extractors
    /\ line_num = 0
    /\ extracted = <<>>
    /\ skipped_inflections = 0
    /\ skipped_technical = 0
    /\ xpc = "lines"

\* one iteration of the loop over the lines of the file
ExtractLine ==
    /\ xpc = "lines"
    /\ line_num < Len(jsonl)
    /\ LET acc == LineStep(LoopState(extracted, skipped_inflections,
                                     skipped_technical),
                           jsonl[line_num + 1], extractor)
       IN /\ extracted' = acc.out
          /\ skipped_inflections' = acc.infl
          /\ skipped_technical' = acc.tech
    /\ line_num' = line_num + 1
    /\ UNCHANGED << jsonl, extractor, xpc, build_vars, canon_vars, pair_vars,
                    class_vars >>

\* the file is at its end: return translations
ReturnTranslations ==
    /\ xpc = "lines"
    /\ line_num = Len(jsonl)
    /\ xpc' = "returned"
    /\ UNCHANGED << jsonl, extractor, line_num, extracted,
                    skipped_inflections, skipped_technical, build_vars,
                    canon_vars, pair_vars, class_vars >>

NextExtract ==
    \/ ExtractLine
    \/ ReturnTranslations

SpecExtract == InitExtract /\ [][NextExtract]_vars

----------------------------------------------------------------------------
(* Vocabulary of the properties                                            *)

\* build_concepts_from_translations has returned
Clustered == pc \in {"persist", "done"}

\* the (lang, lemma, pos) tuple that holds the lemma id
LemmaKeyOf(id) == CHOOSE k \in DOMAIN lemmas : lemmas[k] = id

ConceptIds == {concepts[k] : k \in DOMAIN concepts}

LemmaIds == {lemmas[k] : k \in DOMAIN lemmas}

\* the positions in self.senses of the senses that link a lemma of the
\* language to the concept
SensesOf(concept_id, lang) ==
    {i \in 1..Len(senses) :
        /\ senses[i][2] = concept_id
        /\ senses[i][1] \in LemmaIds
        /\ LemmaKeyOf(senses[i][1])[1] = lang}

NonPivotLangs == {k[1] : k \in DOMAIN lemmas} \ {"en"}

\* the members of a bucket that belong to one language
MembersOf(bucket, lang) ==
    {j \in 1..Len(bucket.members) : bucket.members[j].key[1] = lang}

\* the lemma tuple is linked to the concept by some sense
HasSense(lemma_key, concept_id) ==
    /\ lemma_key \in DOMAIN lemmas
    /\ \E i \in 1..Len(senses) :
           senses[i][1] = lemmas[lemma_key] /\ senses[i][2] = concept_id

\* shorter first, and among equal lengths the lexicographically smaller
OrderedBefore(l1, l2) ==
    \/ Len(l1) < Len(l2)
    \/ Len(l1) = Len(l2) /\ StrLess(l1, l2)

\* a record directed toward the pivot from another language
TowardPivot(row) == row[4] = "en" /\ row[2] # "en"

----------------------------------------------------------------------------
(* Properties of the Concept Clusterer                                     *)

\* C1: after build_concepts_from_translations, every concept has at most 3
\* senses per non-pivot language, however many records fell into its bucket.
C1_AtMostThreeSensesPerLanguage ==
    Clustered =>
        \A concept_id \in ConceptIds : \A lang \in NonPivotLangs :
            Cardinality(SensesOf(concept_id, lang)) <= 3

\* a bucket that holds more than 3 lemmas of one non-pivot language, whose
\* concept got 3 senses of that language
C1_Witness ==
    /\ Clustered
    /\ \E i \in 1..Len(english_hub) : \E lang \in NonPivotLangs :
        /\ Cardinality(MembersOf(english_hub[i], lang)) > 3
        /\ english_hub[i].key \in DOMAIN concepts
        /\ Cardinality(SensesOf(concepts[english_hub[i].key], lang)) = 3

\* C2: after build_concepts_from_translations, every concept has exactly one
\* sense whose lemma is in the pivot language 'en'; that sense has rank 1 and
\* its lemma string is the gloss of the concept.
C2_ExactlyOnePivotSense ==
    Clustered =>
        \A k \in DOMAIN concepts :
            LET pivot == SensesOf(concepts[k], "en")
            IN /\ Cardinality(pivot) = 1
               /\ \A i \in pivot :
                      /\ senses[i][3] = 1
                      /\ LemmaKeyOf(senses[i][1])[2] = k[1]

\* two concepts, one of them with senses in two non-pivot languages next to
\* its pivot sense
C2_Witness ==
    /\ Clustered
    /\ Cardinality(DOMAIN concepts) >= 2
    /\ \E k \in DOMAIN concepts :
        /\ SensesOf(concepts[k], "en") # {}
        /\ SensesOf(concepts[k], "es") # {}
        /\ SensesOf(concepts[k], "fr") # {}

\* C3: within one concept and one non-pivot language a sense of lower rank
\* has a lemma that is not longer, and lexicographically smaller when the
\* lengths are equal; a lemma of the bucket that got no sense is not ordered
\* before one of the same language that got one.
C3_RankFollowsLengthThenLemma ==
    Clustered =>
        /\ \A concept_id \in ConceptIds : \A lang \in NonPivotLangs :
            \A i, j \in SensesOf(concept_id, lang) :
                senses[i][3] < senses[j][3] =>
                    LET li == LemmaKeyOf(senses[i][1])[2]
                        lj == LemmaKeyOf(senses[j][1])[2]
                    IN /\ Len(li) <= Len(lj)
                       /\ Len(li) = Len(lj) => StrLess(li, lj)
        /\ \A b \in 1..Len(english_hub) :
            \A m, n \in 1..Len(english_hub[b].members) :
                LET bucket == english_hub[b]
                    km == bucket.members[m].key
                    kn == bucket.members[n].key
                IN (/\ bucket.key \in DOMAIN concepts
                    /\ km[1] = kn[1]
                    /\ km[1] # "en"
                    /\ ~HasSense(km, concepts[bucket.key])
                    /\ HasSense(kn, concepts[bucket.key]))
                   => ~OrderedBefore(km[2], kn[2])

\* a language with three ranked senses in one concept, two of them of equal
\* length, and a fourth lemma of the bucket left without a sense
C3_Witness ==
    /\ Clustered
    /\ \E b \in 1..Len(english_hub) : \E lang \in NonPivotLangs :
        LET bucket == english_hub[b]
        IN /\ bucket.key \in DOMAIN concepts
           /\ \E m \in MembersOf(bucket, lang) :
                  ~HasSense(bucket.members[m].key, concepts[bucket.key])
           /\ \E i, j \in SensesOf(concepts[bucket.key], lang) :
                  /\ senses[i][3] < senses[j][3]
                  /\ Len(LemmaKeyOf(senses[i][1])[2])
                         = Len(LemmaKeyOf(senses[j][1])[2])

\* the hub keys the records toward the pivot lead to
ReachedHubKeys ==
    {<<_extract_english_lemma(r[3]), PosCacheGet(pos_cache, <<r[2], r[1]>>)>> :
        r \in {r \in translations : TowardPivot(r)}}

\* C4: in one build no two concepts share a (pivot lemma, pos) pair: every
\* pair reached by a qualifying record gets exactly one concept identifier,
\* and the concept identifiers are pairwise distinct.
C4_OneConceptPerPair ==
    Clustered =>
        /\ DOMAIN concepts = ReachedHubKeys
        /\ \A k1, k2 \in DOMAIN concepts :
               k1 # k2 => concepts[k1] # concepts[k2]
        /\ next_concept_id - 1 = Cardinality(ReachedHubKeys)
        /\ \A i \in 1..Len(senses) : senses[i][2] \in ConceptIds
        /\ pc = "done" =>
               \A i, j \in 1..Len(store.concepts) :
                   i # j => /\ store.concepts[i][1] # store.concepts[j][1]
                            /\ SubSeq(store.concepts[i], 2, 3)
                                   # SubSeq(store.concepts[j], 2, 3)

\* two concepts, one of them reached by several records
C4_Witness ==
    /\ pc = "done"
    /\ Len(store.concepts) >= 2
    /\ \E b \in 1..Len(english_hub) : Len(english_hub[b].members) >= 2

\* C5: at every point of a build the lemma registry gives each tuple one
\* identifier, no identifier is held by two tuples, a registered tuple keeps
\* its identifier, and a newly created lemma gets an identifier greater than
\* every identifier assigned before.
C5_LemmaIdsUniqueAndMonotone ==
    /\ [](\A k1, k2 \in DOMAIN lemmas : k1 # k2 => lemmas[k1] # lemmas[k2])
    /\ [](\A k \in DOMAIN lemmas : lemmas[k] < next_lemma_id)
    /\ [][/\ \A k \in DOMAIN lemmas :
                 k \in DOMAIN lemmas' /\ lemmas'[k] = lemmas[k]
          /\ \A k \in (DOMAIN lemmas') \ (DOMAIN lemmas) :
                 /\ lemmas'[k] >= next_lemma_id
                 /\ \A o \in DOMAIN lemmas : lemmas'[k] > lemmas[o]]_vars

\* a registry that holds lemmas of the lexicon and lemmas created by the
\* clusterer, from translations and for the pivot
C5_Witness ==
    /\ Clustered
    /\ forms # <<>>
    /\ \E k \in DOMAIN lemmas :
           /\ k[1] = "en"
           /\ \A f \in 1..Len(forms) : lemmas[k] > lemmas[<<forms[f][1], forms[f][3], forms[f][4]>>]
    /\ \E k \in DOMAIN lemmas :
           /\ k[1] # "en"
           /\ \A f \in 1..Len(forms) : lemmas[k] > lemmas[<<forms[f][1], forms[f][3], forms[f][4]>>]

\* the (english_lemma, pos) pair that holds the concept id
ConceptKeyOf(id) == CHOOSE k \in DOMAIN concepts : concepts[k] = id

----------------------------------------------------------------------------
(* Properties of a rebuild                                                 *)

\* the row counts of a store
Counts(st) ==
    <<Len(st.forms), Len(st.lemmas), Len(st.concepts), Len(st.senses)>>

\* the (lemma identity, concept gloss, rank) triples of a store
Triples(st) ==
    {<< LET l == CHOOSE l \in 1..Len(st.lemmas) :
                     st.lemmas[l][1] = st.senses[i][1]
        IN SubSeq(st.lemmas[l], 2, 4),
        LET c == CHOOSE c \in 1..Len(st.concepts) :
                     st.concepts[c][1] = st.senses[i][2]
        IN st.concepts[c][3],
        st.senses[i][3] >> : i \in 1..Len(st.senses)}

\* C10: two runs of the full build on the same inputs leave stores with the
\* same numbers of forms, lemmas, concepts and senses and the same set of
\* (lemma identity, concept gloss, rank) triples.
C10_RebuildGivesSameStore ==
    (pc = "done" /\ run = 2) =>
        /\ Counts(store) = Counts(prev)
        /\ Triples(store) = Triples(prev)

\* a second run that numbered its rows otherwise than the first
C10_Witness ==
    /\ pc = "done"
    /\ run = 2
    /\ store # prev
    /\ Len(store.senses) >= 4
    /\ Len(store.forms) >= 1

----------------------------------------------------------------------------
(* Properties of the Lemma Canonicalizer                                   *)

\* the canonicalizer has been applied to the gloss
Canonicalized == cpc \in {"once", "twice"}

\* C6: canonicalization is idempotent: _extract_english_lemma applied to
\* its own result gives that result again.
C6_CanonicalizationIdempotent ==
    cpc = "twice" => canon2 = canon

\* the position of the earliest comma, semicolon or slash of a text
EarliestSeparator(text) ==
    Min(Positions(text, ",") \cup Positions(text, ";") \cup Positions(text, "/"))

HasSeparator(text) ==
    HasChar(text, ",") \/ HasChar(text, ";") \/ HasChar(text, "/")

\* C7: step 4 cuts the text at the earliest comma, semicolon or slash and
\* keeps the leading segment, so the canonical lemma holds none of the three.
C7_CutAtEarliestSeparator ==
    Canonicalized =>
        /\ ~HasSeparator(canon)
        /\ LET text == JargonLoop(StripParenthetical(StripInfinitive(gloss)), 1)
           IN HasSeparator(text) =>
                  canon = Strip(Lower(Strip(
                              SubSeq(text, 1, EarliestSeparator(text) - 1))))

\* C8: the canonicalizer maps "to be (copula)" to "be", "hello, hi, hey" to
\* "hello", "apocopic form of mío, my" to "my" and "greetings; hello (general
\* salutation)" to "greetings".
C8_CanonicalizationExamples ==
    Canonicalized =>
        /\ gloss = GlossToBe => canon = <<"b","e">>
        /\ gloss = GlossHello => canon = <<"h","e","l","l","o">>
        /\ gloss = GlossApocopic => canon = <<"m","y">>
        /\ gloss = GlossGreetings
               => canon = <<"g","r","e","e","t","i","n","g","s">>

\* the jargon gloss canonicalized to the text after its last comma
C8_Witness ==
    /\ cpc = "once"
    /\ gloss = GlossApocopic
    /\ canon = <<"m","y">>

----------------------------------------------------------------------------
(* The persister and the failures of a build                               *)

\* the rows of a table as a set
RowSet(table) == {table[i] : i \in 1..Len(table)}

\* the build has no lemma, or no record toward the pivot reached the hub
NothingToStore == DOMAIN lemmas = {} \/ english_hub = <<>>

\* C13: a build that ends up with zero translations or zero lemmas aborts
\* with a failure, and no store, not even an empty one, is written at the
\* output location.
C13_EmptyBuildWritesNoStore ==
    (Clustered /\ NothingToStore) => (store = NoStore /\ pc # "done")

\* what the new store holds when the bulk inserts go through
NewStore == Inserted(EmptyStore)

\* C14: after create_concepts_db has failed, the output location holds the
\* complete previous store or the complete new store, never the schema with
\* rows missing.
C14_FailureLeavesNoPartialStore ==
    pc = "failed" => (store = prev \/ store = NewStore)

\* C15: after a successful create_concepts_db at a location that held a
\* store, each table of the store holds the rows derived from the builder's
\* tables and no other row; no row of the previous store survives.
C15_FullReplace ==
    (pc = "done" /\ prev # NoStore) =>
        /\ RowSet(store.lemmas) = RowSet(LemmaRows)
        /\ RowSet(store.forms) = RowSet(FormRows)
        /\ RowSet(store.concepts) = RowSet(ConceptRows)
        /\ RowSet(store.senses) \subseteq RowSet(senses)
        /\ \A i \in 1..Len(senses) : \E r \in RowSet(store.senses) :
               SubSeq(r, 1, 2) = SubSeq(senses[i], 1, 2)

\* a previous store was replaced by a store with rows of the new build
C15_Witness ==
    /\ pc = "done"
    /\ prev = OldStore
    /\ store.lemmas # <<>>
    /\ store.forms # <<>>
    /\ store # prev

\* no two rows of the table agree on their first n columns
UniqueOn(table, n) ==
    \A i, j \in 1..Len(table) :
        SubSeq(table[i], 1, n) = SubSeq(table[j], 1, n) => i = j

\* every row of the list has, in the table, the row that came first in the
\* list among those with its key
FirstKept(table, rows, n) ==
    \A i \in 1..Len(rows) :
        LET first == CHOOSE k \in 1..i :
                         /\ SubSeq(rows[k], 1, n) = SubSeq(rows[i], 1, n)
                         /\ \A o \in 1..(k - 1) :
                                SubSeq(rows[o], 1, n) # SubSeq(rows[i], 1, n)
        IN rows[first] \in RowSet(table)

\* C17: a forms or senses row whose primary key is already stored is
\* dropped without an error and leaves the stored row as it is: the stored
\* forms and senses are unique on their keys, all rows given were loaded,
\* and loading the same rows once more adds nothing.
C17_DuplicateFormsAndSensesIgnored ==
    pc = "done" =>
        /\ UniqueOn(store.forms, 3)
        /\ UniqueOn(store.senses, 2)
        /\ FirstKept(store.forms, FormRows, 3)
        /\ FirstKept(store.senses, senses, 2)
        /\ InsertOrIgnore(store.forms, FormRows, 3) = store.forms
        /\ InsertOrIgnore(store.senses, senses, 2) = store.senses

\* a build stored whose senses held a key twice, with two ranks
C17_Witness ==
    /\ pc = "done"
    /\ \E i, j \in 1..Len(senses) :
           /\ i < j
           /\ SubSeq(senses[i], 1, 2) = SubSeq(senses[j], 1, 2)
           /\ senses[i][3] # senses[j][3]
    /\ Len(store.senses) < Len(senses)

\* two lemmas, or two concepts, of the builder hold the same id; a dict
\* cannot hold a (lang, lemma, pos) tuple twice
DuplicateId(d) ==
    \E k1, k2 \in DOMAIN d : k1 # k2 /\ d[k1] = d[k2]

\* C18: a duplicate key on a lemma insert or on a concept insert makes the
\* persister fail before the transaction is committed: the commit is never
\* reached, the run does not succeed, and no lemma or concept row gets into
\* the file.
C18_DuplicateLemmaOrConceptFails ==
    (DuplicateId(lemmas) \/ DuplicateId(concepts)) =>
        /\ pc # "done"
        /\ ppc # "commit"
        /\ store \in {prev, NoStore, EmptyStore}

\* the persister has failed on a builder with a duplicate id and the file
\* holds the empty tables
C18_Witness ==
    /\ pc = "failed"
    /\ DuplicateId(lemmas) \/ DuplicateId(concepts)
    /\ store = EmptyStore

----------------------------------------------------------------------------
(* Inputs that are missing, and the part of speech of a record             *)

\* the lexicon row was loaded as a form of the language
FormLoaded(lang, row) ==
    \E f \in 1..Len(forms) :
        forms[f][1] = lang /\ forms[f][2] = row[1] /\ forms[f][3] = row[2]

\* the keys of the buckets of english_hub
HubKeys == {english_hub[i].key : i \in 1..Len(english_hub)}

\* C16: a language without a lexicon database and a translation database
\* without a translations table or without rows are skipped: they give no
\* form, no lemma and no hub entry, and every other language and every
\* other translation database is still processed in full.
C16_MissingInputsAreSkipped ==
    /\ pc # "load" =>
           \A lang \in DOMAIN lexicon :
               IF lexicon[lang].exists
               THEN \A r \in 1..Len(lexicon[lang].rows) :
                        FormLoaded(lang, lexicon[lang].rows[r])
               ELSE /\ \A f \in 1..Len(forms) : forms[f][1] # lang
                    /\ pc = "cache" =>
                           \A k \in DOMAIN lemmas : k[1] # lang
    /\ pc \in {"cluster", "persist", "done"} =>
           /\ processed = translations
           /\ HubKeys = ReachedHubKeys

\* the pivot has no lexicon, both row-less files were skipped before any
\* row was processed, and the rows of another file are now open
C16_Witness ==
    /\ pc = "ingest"
    /\ ~lexicon["en"].exists
    /\ forms # <<>>
    /\ Cardinality(broken_dbs) = 2
    /\ broken_dbs \cap dbs_left = {}
    /\ processed = {}
    /\ pending # {}
    /\ dbs_left # {}

\* the pos of the first row of the language's lexicon database with the
\* lemma, "UNKNOWN" when the row has none or no row has the lemma
FirstLexPos(lang, lemma) ==
    LET rows == lexicon[lang].rows
        with == {r \in 1..Len(rows) : rows[r][2] = lemma}
    IN IF with = {} THEN "UNKNOWN"
       ELSE LET first == CHOOSE r \in with : \A o \in with : r <= o
            IN IF rows[first][3] = NULL THEN "UNKNOWN" ELSE rows[first][3]

\* C19: a record (source_lang, source_lemma) is filed under the part of
\* speech of the earliest-registered lexicon lemma with that language and
\* lemma, "UNKNOWN" when there is none; the lemmas the clusterer registers
\* carry that part of speech and never change the cache.
C19_FirstSeenPosWins ==
    /\ pc \in {"ingest", "cluster", "persist", "done"} =>
           /\ \A r \in {r \in processed : TowardPivot(r)} :
                  LET source_pos == FirstLexPos(r[2], r[1])
                  IN \E i \in 1..Len(english_hub) :
                         /\ english_hub[i].key[2] = source_pos
                         /\ \E j \in 1..Len(english_hub[i].members) :
                                english_hub[i].members[j].key
                                    = <<r[2], r[1], source_pos>>
           /\ \A k \in DOMAIN pos_cache :
                  pos_cache[k] = FirstLexPos(k[1], k[2])
    /\ Clustered =>
           \A i \in 1..Len(senses) :
               LET lemma_key == LemmaKeyOf(senses[i][1])
               IN lemma_key[1] # "en" =>
                      lemma_key[3] = FirstLexPos(lemma_key[1], lemma_key[2])

\* the lexicon lists the lemma as a verb first and as a noun second, a
\* record of that lemma got a sense as a verb, and a record of a lemma the
\* lexicon does not have got a sense as "UNKNOWN"
C19_Witness ==
    /\ Clustered
    /\ Len(lexicon["es"].rows) = 2
    /\ lexicon["es"].rows[1][3] = "VERB"
    /\ lexicon["es"].rows[2][2] = lexicon["es"].rows[1][2]
    /\ \E i \in 1..Len(senses) :
           LemmaKeyOf(senses[i][1]) = <<"es", <<"a">>, "VERB">>
    /\ \E i \in 1..Len(senses) :
           LemmaKeyOf(senses[i][1])[3] = "UNKNOWN"

----------------------------------------------------------------------------
(* Properties of the augmenter                                             *)

\* the augmentation step of the pair builder is over
Augmented == tpc \in {"write", "done"}

\* the record with source and target swapped
Mirror(rec) == <<rec[3], rec[4], rec[1], rec[2]>>

\* list x followed by the mirror images of the records of list y, in the
\* order of y
WithMirrorOf(x, y) ==
    x \o [i \in 1..Len(y) |-> [rec |-> Mirror(y[i].rec), n |-> y[i].n]]

\* C11: when one direction has fewer than 10,000 records and the other more
\* than 100,000, the sparse list becomes its own records followed by the
\* mirrored record (translation, lang_to, lemma_from, lang_from) of every
\* record of the rich list, in the rich list's order; its length is the sum
\* of both lengths and the rich list stays as it was.
C11_SparseGetsMirrorOfRich ==
    Augmented =>
        /\ (ListLen(original1) < 10000 /\ ListLen(original2) > 100000) =>
               /\ translations1 = WithMirrorOf(original1, original2)
               /\ ListLen(translations1)
                      = ListLen(original1) + ListLen(original2)
               /\ translations2 = original2
        /\ (ListLen(original2) < 10000 /\ ListLen(original1) > 100000) =>
               /\ translations2 = WithMirrorOf(original2, original1)
               /\ ListLen(translations2)
                      = ListLen(original2) + ListLen(original1)
               /\ translations1 = original1

\* a sparse list with a record of its own was extended by the mirror
\* images of a rich list with two kinds of records
C11_Witness ==
    /\ tpc = "done"
    /\ original1 # <<>>
    /\ ListLen(original1) < 10000
    /\ ListLen(original2) > 100000
    /\ original2[1].rec # original2[2].rec
    /\ Len(translations1) = Len(original1) + 2
    /\ translations1[Len(translations1)].rec = Mirror(original2[2].rec)

\* the two counts call for an augmentation of the first, of the second list
Calls1 == ListLen(original1) < 10000 /\ ListLen(original2) > 100000

Calls2 == ListLen(original2) < 10000 /\ ListLen(original1) > 100000

\* C12: at most one direction is augmented, and when neither direction is
\* below 10,000 with the other above 100,000 (counts of exactly 10,000 or
\* exactly 100,000 included) both lists stay as they were.
C12_AtMostOneDirectionAugmented ==
    Augmented =>
        /\ translations1 = original1 \/ translations2 = original2
        /\ ~Calls1 => translations1 = original1
        /\ ~Calls2 => translations2 = original2

\* a list of exactly 10,000 records next to a rich list, both unchanged
C12_Witness ==
    /\ tpc = "done"
    /\ ListLen(original1) = 10000
    /\ ListLen(original2) > 100000
    /\ translations1 = original1
    /\ translations2 = original2

----------------------------------------------------------------------------
(* Properties of the classifiers                                           *)

\* the class the specification gives to the three example glosses
ExampleClass(class) ==
    /\ sense_gloss = GlossThirdPerson => class = "inflection"
    /\ sense_gloss = GlossCity => class = "technical"
    /\ sense_gloss = GlossPronoun => class = "genuine"

\* C20: with the tests of build_translations.py and with the tests of
\* build_translations_bidirectional.py, "third-person plural future
\* indicative of muñir" is an inflection reference, "a city in Lombardy" is
\* technical and "first-person singular pronoun; I" is genuine.
C20_ClassifierExamples ==
    sense_categories = <<>> =>
        /\ class_mono # "none" => ExampleClass(class_mono)
        /\ class_bi # "none" => ExampleClass(class_bi)

\* the category name is a str that contains a denylisted topic, in any case
TagMatches(tag) ==
    /\ tag.is_str
    /\ \E b \in 1..Len(bad_categories) :
           Contains(Lower(tag.text), bad_categories[b])

SomeTagMatches ==
    \E c \in 1..Len(sense_categories) : TagMatches(sense_categories[c])

\* C21: is_technical_definition returns true whenever a str category name
\* contains a denylisted topic, in any case and whatever the gloss is; a
\* name that is no str is passed over; and when no name matches, the result
\* is whether the lower-cased gloss contains a technical pattern.
C21_CategoryTagsTakePrecedence ==
    tech_result # "none" =>
        IF SomeTagMatches
        THEN tech_result = "yes"
        ELSE tech_result = "yes"
                 <=> \E k \in 1..Len(technical_patterns) :
                         Contains(Lower(sense_gloss), technical_patterns[k])

\* a gloss without a technical pattern, with a name that is no str in front
\* of a denylisted topic in capitals, was found technical
C21_Witness ==
    /\ tech_result = "yes"
    /\ sense_gloss = GlossPronoun
    /\ Len(sense_categories) = 2
    /\ ~sense_categories[1].is_str
    /\ TagMatches(sense_categories[2])

----------------------------------------------------------------------------
(* Properties of the Concept Clusterer on glosses that canonicalize to     *)
(* nothing or to the source lemma                                          *)

\* C22: a canonicalization result that is empty or is the source lemma of
\* its record is discarded: no hub bucket, no concept and no sense comes
\* from it, and no concept has an empty gloss.
C22_EmptyOrSelfGlossDiscarded ==
    /\ \A i \in 1..Len(english_hub) :
           /\ english_hub[i].key[1] # <<>>
           /\ \A j \in 1..Len(english_hub[i].members) :
                  english_hub[i].members[j].key[2] # english_hub[i].key[1]
    /\ \A k \in DOMAIN concepts : k[1] # <<>>
    /\ \A i \in 1..Len(senses) :
           (senses[i][1] \in LemmaIds /\ senses[i][2] \in ConceptIds) =>
               LET lemma_key == LemmaKeyOf(senses[i][1])
               IN lemma_key[1] # "en" =>
                      lemma_key[2] # ConceptKeyOf(senses[i][2])[1]

----------------------------------------------------------------------------
(* The concept graph as a function of the inputs                           *)

\* the (lemma tuple, concept tuple, rank) triples of self.senses
SenseTriples ==
    {<<LemmaKeyOf(senses[i][1]), ConceptKeyOf(senses[i][2]), senses[i][3]>> :
        i \in 1..Len(senses)}

\* the part of speech the lexicon gives a (lang, lemma) pair: that of its
\* first row in the lexicon, 'UNKNOWN' without one
PosOf(lang, lemma) ==
    IF lexicon[lang].exists
          /\ \E r \in 1..Len(lexicon[lang].rows) :
                 lexicon[lang].rows[r][2] = lemma
    THEN LET first == CHOOSE r \in 1..Len(lexicon[lang].rows) :
                 /\ lexicon[lang].rows[r][2] = lemma
                 /\ \A q \in 1..(r - 1) : lexicon[lang].rows[q][2] # lemma
             pos == lexicon[lang].rows[first][3]
         IN IF pos = NULL THEN "UNKNOWN" ELSE pos
    ELSE "UNKNOWN"

\* the concept tuple a record toward the pivot belongs to
HubKeyOf(r) == <<_extract_english_lemma(r[3]), PosOf(r[2], r[1])>>

\* the lemmas of one language that the records put under a concept tuple
LemmasUnder(hub_key, lang) ==
    {r[1] : r \in {r \in translations :
                      TowardPivot(r) /\ r[2] = lang /\ HubKeyOf(r) = hub_key}}

\* the place of a lemma among the lemmas of its language under a concept
PlaceOf(lemma, among) ==
    1 + Cardinality({o \in among : OrderedBefore(o, lemma)})

\* the triples the inputs determine: per concept tuple and language the
\* three lemmas that come first by (length, lemma), and the pivot lemma
ExpectedTriples ==
    LET keys == {HubKeyOf(r) : r \in {r \in translations : TowardPivot(r)}}
        langs == {r[2] : r \in translations}
    IN {<< <<"en", k[1], k[2]>>, k, 1 >> : k \in keys}
       \cup UNION { UNION { { << <<lang, l, k[2]>>, k,
                               PlaceOf(l, LemmasUnder(k, lang)) >> :
                               l \in {l \in LemmasUnder(k, lang) :
                                   PlaceOf(l, LemmasUnder(k, lang)) <= 3} } :
                           lang \in langs } : k \in keys }

\* C23: for a fixed lexicon the set of (lemma identity, concept, rank)
\* triples the clusterer produces is determined by the set of records: it
\* is the same for every order of the translation databases and of their
\* rows, and for every order of the hub buckets and language groups.
C23_TriplesIndependentOfOrder ==
    Clustered => SenseTriples = ExpectedTriples

\* the hub holds two buckets, and one of them holds two lemmas of one
\* language of which the later one ranks first
C23_Witness ==
    /\ Clustered
    /\ Len(english_hub) >= 2
    /\ \E i \in 1..Len(english_hub) :
         \E j1, j2 \in 1..Len(english_hub[i].members) :
           /\ j1 < j2
           /\ english_hub[i].members[j1].key[1] =
                  english_hub[i].members[j2].key[1]
           /\ SortKeyLess(english_hub[i].members[j2],
                          english_hub[i].members[j1])

\* a step of build_concepts_from_translations
ClustererStep == pc \in {"cache", "ingest", "cluster"}

\* C24: the clusterer only extends the tables: it leaves the list of forms
\* as the Lexicon Loader built it, it keeps every registered lemma under its
\* id, and a concept or a sense, once created, stays as it is.
C24_ClustererOnlyExtends ==
    [][ClustererStep =>
          /\ forms' = forms
          /\ \A k \in DOMAIN lemmas :
                 k \in DOMAIN lemmas' /\ lemmas'[k] = lemmas[k]
          /\ \A k \in DOMAIN concepts :
                 k \in DOMAIN concepts' /\ concepts'[k] = concepts[k]
          /\ Len(senses') >= Len(senses)
          /\ SubSeq(senses', 1, Len(senses)) = senses]_vars

\* a lemma of the lexicon was linked to two concepts
C24_Witness ==
    /\ Clustered
    /\ \E f \in 1..Len(forms) :
           LET k == <<forms[f][1], forms[f][3], forms[f][4]>>
           IN /\ k \in DOMAIN lemmas
              /\ \E i, j \in 1..Len(senses) :
                     /\ senses[i][1] = lemmas[k]
                     /\ senses[j][1] = lemmas[k]
                     /\ senses[i][2] # senses[j][2]

\* C25: every reference resolves: after clustering the lemma id of a sense
\* is the id of exactly one lemma of the registry and its concept id is the
\* id of exactly one concept, and every form row of the store carries the
\* id of a stored lemma that has the (lang, lemma, pos) of the form.
C25_ReferencesResolve ==
    Clustered =>
        /\ \A i \in 1..Len(senses) :
               /\ Cardinality({k \in DOMAIN lemmas :
                                  lemmas[k] = senses[i][1]}) = 1
               /\ Cardinality({k \in DOMAIN concepts :
                                  concepts[k] = senses[i][2]}) = 1
        /\ store # NoStore =>
               \A f \in 1..Len(store.forms) :
                   LET row == store.forms[f]
                       owners == {l \in 1..Len(store.lemmas) :
                                     store.lemmas[l][1] = row[3]}
                   IN /\ Cardinality(owners) = 1
                      /\ \E g \in 1..Len(forms) : \A l \in owners :
                             /\ forms[g][1] = row[1]
                             /\ forms[g][2] = row[2]
                             /\ store.lemmas[l] =
                                    <<row[3], forms[g][1], forms[g][3],
                                      forms[g][4]>>

\* a store was written that holds a form row, senses of lemmas of the
\* lexicon and senses of lemmas the clusterer created
C25_Witness ==
    /\ pc = "done"
    /\ store # NoStore
    /\ Len(store.forms) >= 1
    /\ \E i, j \in 1..Len(senses) :
           /\ \E f \in 1..Len(store.forms) : store.forms[f][3] = senses[i][1]
           /\ \A f \in 1..Len(store.forms) : store.forms[f][3] # senses[j][1]

----------------------------------------------------------------------------
(* Properties of the Translation Ingestor                                  *)

\* the line cannot be parsed, or its entry has an empty word
MalformedLine(line) == ~line.parses \/ Strip(line.word) = <<>>

\* the gloss is empty or is no str
MalformedGloss(g) == ~g.is_str \/ g.text = <<>>

\* the file without its malformed lines, and its senses without their
\* malformed glosses
WithoutMalformed(lines) ==
    LET kept == SelectSeq(lines, LAMBDA line : ~MalformedLine(line))
    IN [i \in 1..Len(kept) |->
           [kept[i] EXCEPT !.senses =
               [j \in 1..Len(kept[i].senses) |->
                   [kept[i].senses[j] EXCEPT !.glosses =
                       SelectSeq(@, LAMBDA g : ~MalformedGloss(g))]]]]

\* the list extract_translations returns for the lines
RECURSIVE ExtractAll(_, _)
ExtractAll(lines, ex) ==
    IF lines = <<>> THEN <<>>
    ELSE LineStep(LoopState(ExtractAll(SubSeq(lines, 1, Len(lines) - 1), ex),
                            0, 0),
                  lines[Len(lines)], ex).out

\* C26: a malformed record is dropped where it stands: a line that cannot
\* be parsed, an entry with an empty word and a gloss that is empty or no
\* str add no record, every later line is still read, and the list that
\* is returned is the list the file gives without them; every record in
\* the list has a non-empty source word and a non-empty translation that
\* is not the source word.
C26_MalformedRecordsDroppedLocally ==
    /\ [](\A i \in 1..Len(extracted) :
             /\ extracted[i][1] # <<>>
             /\ extracted[i][3] # <<>>
             /\ extracted[i][3] # extracted[i][1])
    /\ [](xpc = "returned" =>
             /\ line_num = Len(jsonl)
             /\ extracted = ExtractAll(WithoutMalformed(jsonl), extractor))
    /\ [][(xpc = "lines" /\ line_num < Len(jsonl)
              /\ MalformedLine(jsonl[line_num + 1])) =>
             (extracted' = extracted /\ line_num' = line_num + 1
              /\ xpc' = "lines")]_vars

\* a file whose first line cannot be parsed and whose second line holds an
\* empty gloss and a gloss that is no str gave a record
C26_Witness ==
    /\ xpc = "returned"
    /\ Len(jsonl) = 2
    /\ ~jsonl[1].parses
    /\ jsonl[2].parses
    /\ \E j \in 1..Len(jsonl[2].senses) :
           /\ \E g \in 1..Len(jsonl[2].senses[j].glosses) :
                  ~jsonl[2].senses[j].glosses[g].is_str
           /\ \E g \in 1..Len(jsonl[2].senses[j].glosses) :
                  jsonl[2].senses[j].glosses[g] = Str(<<>>)
    /\ extractor.lang_from # "en"
    /\ Len(extracted) >= 1

----------------------------------------------------------------------------
(* Further properties of the Concept Clusterer                             *)

\* the distinct lemmas of one language in a bucket
LemmasIn(bucket, lang) ==
    {bucket.members[j].key[2] : j \in MembersOf(bucket, lang)}

\* C27: within one concept and one non-pivot language the ranks of the
\* senses are exactly 1..k, without gap or repeat, where k is the smaller
\* of 3 and the number of distinct lemmas of the language in the bucket.
C27_RanksAreOneToK ==
    Clustered =>
        \A i \in 1..Len(english_hub) : \A lang \in NonPivotLangs :
            LET of_lang == SensesOf(concepts[english_hub[i].key], lang)
                n == Cardinality(LemmasIn(english_hub[i], lang))
                k == IF n < 3 THEN n ELSE 3
            IN /\ Cardinality(of_lang) = k
               /\ {senses[x][3] : x \in of_lang} = 1..k

\* a bucket with four lemmas of one language, whose concept got the ranks
\* 1, 2 and 3 for that language
C27_Witness ==
    /\ Clustered
    /\ \E i \in 1..Len(english_hub) : \E lang \in NonPivotLangs :
           /\ Cardinality(LemmasIn(english_hub[i], lang)) = 4
           /\ {senses[x][3] :
                  x \in SensesOf(concepts[english_hub[i].key], lang)}
                  = {1, 2, 3}

\* C28: every sense links a lemma and a concept of the same part of speech,
\* the senses of the other languages and the sense of the pivot alike.
C28_SenseKeepsPartOfSpeech ==
    Clustered =>
        \A i \in 1..Len(senses) :
            LemmaKeyOf(senses[i][1])[3] = ConceptKeyOf(senses[i][2])[2]

\* a concept with a part of speech from the lexicon has a sense of the
\* pivot and a sense of another language
C28_Witness ==
    /\ Clustered
    /\ \E i, j \in 1..Len(senses) :
           /\ senses[i][2] = senses[j][2]
           /\ ConceptKeyOf(senses[i][2])[2] # "UNKNOWN"
           /\ LemmaKeyOf(senses[i][1])[1] = "en"
           /\ LemmaKeyOf(senses[j][1])[1] # "en"

\* C29: no two senses share a (lemma id, concept id) pair, so that the
\* insert of the senses, which ignores duplicates, drops nothing and the
\* store holds as many senses as were built; and a lemma of the pivot
\* language that is the rank-1 sense of a concept is linked to that concept
\* alone.
C29_SensePairsAreUnique ==
    Clustered =>
        /\ \A i, j \in 1..Len(senses) :
               i # j => <<senses[i][1], senses[i][2]>>
                            # <<senses[j][1], senses[j][2]>>
        /\ (pc = "done" /\ store # NoStore) =>
               Len(store.senses) = Len(senses)
        /\ \A i, j \in 1..Len(senses) :
               (LemmaKeyOf(senses[i][1])[1] = "en"
                    /\ senses[j][1] = senses[i][1]) =>
                   senses[j][2] = senses[i][2]

\* two rows gave one source lemma the same canonicalized gloss, the pivot
\* lemma of the concept was in the lexicon, and the store was written
C29_Witness ==
    /\ pc = "done"
    /\ store # NoStore
    /\ Len(store.senses) >= 2
    /\ \E r1, r2 \in processed :
           /\ r1 # r2
           /\ TowardPivot(r1) /\ TowardPivot(r2)
           /\ r1[1] = r2[1] /\ r1[2] = r2[2]
           /\ _extract_english_lemma(r1[3]) = _extract_english_lemma(r2[3])
    /\ \E f \in 1..Len(forms) : \E i \in 1..Len(senses) :
           /\ forms[f][1] = "en"
           /\ <<"en", forms[f][3], forms[f][4]>> \in DOMAIN lemmas
           /\ senses[i][1] = lemmas[<<"en", forms[f][3], forms[f][4]>>]

----------------------------------------------------------------------------
(* Further properties of the augmenter                                     *)

\* every record of the list goes from one language to the other
Directed(list, lang_from, lang_to) ==
    \A i \in 1..Len(list) :
        list[i].rec[2] = lang_from /\ list[i].rec[4] = lang_to

\* C30: after the augmentation step every record of the lang1 -> lang2
\* list has lang_from = lang1 and lang_to = lang2 and every record of the
\* lang2 -> lang1 list has lang_from = lang2 and lang_to = lang1, the
\* mirrored records included; and a list mirrored twice is the list.
C30_DirectionsKeptAndMirrorInvolutive ==
    Augmented =>
        /\ Directed(translations1, lang1, lang2)
        /\ Directed(translations2, lang2, lang1)
        /\ reverse_translations(reverse_translations(translations1))
               = translations1
        /\ reverse_translations(reverse_translations(translations2))
               = translations2

\* the lang2 -> lang1 list was extended by the mirror images of the
\* lang1 -> lang2 list and both were written
C30_Witness ==
    /\ tpc = "done"
    /\ original2 # <<>>
    /\ translations1 = original1
    /\ Len(translations2) = Len(original2) + Len(original1)
    /\ Len(original1) = 2
    /\ translations2[Len(translations2)].rec[2] = lang2

====
